---------------------------- MODULE Spec2Model ----------------------------
(***************************************************************************)
(* Kartquake backend: trip constraints ("trip memory"), the constraint     *)
(* parser, plan admissibility filtering, the free-tier usage counter, the  *)
(* drive-time augmenter, the discount rules, the watchlist price history   *)
(* and the choice of the recommended plan.                                 *)
(*                                                                         *)
(* A text is a sequence of words (the whitespace-separated pieces of the   *)
(* message); Python's substring test `phrase in t` is modelled as the      *)
(* occurrence of the phrase's words as a contiguous run of the text's      *)
(* words, and the regular expressions of _parse_int_after word by word.    *)
(***************************************************************************)
EXTENDS Integers, Sequences, FiniteSets, TLC

VARIABLES
    user,          \* the users row of the one user the requests are about
    trip_session,  \* that user's trip_sessions row (or none yet)
    items,         \* the user's pending item_intents rows, oldest first
    folded,        \* history: parse_constraints_from_text folded over the texts handled so far
    resp,          \* the last response returned by an endpoint, with what the handler did
    watchlist,     \* the user's watchlist_items rows, by (user, item)
    store_location,\* the store_locations row of each store name: none, without or with coordinates
    pText,         \* parser harness: the text argument
    pExisting,     \* parser harness: the `existing` argument
    pResult,       \* parser harness: the returned record
    pPc,           \* parser harness: "call" before the call, "done" after it
    cPrev,         \* repeated parsing: the record before the last call
    cCur,          \* repeated parsing: the record after the last call
    aConstraints,  \* filter harness: constraints_used
    aUser,         \* filter harness: the users row is_free and allow_costco are read from
    aAllowed,      \* filter harness: the keys of the candidates plan_allowed accepts
    aPc,           \* filter harness: "call" before the filter ran, "done" after it
    reqPc,         \* concurrent build_plan requests: request -> position
    reqUser,       \* concurrent build_plan requests: request -> its session's copy of the users row
    usedAtStart,   \* concurrent build_plan requests: free_plan_runs_used before the requests
    aug,           \* drive-time harness: the call of augment_plan_with_drive_times and its result
    wl,            \* watchlist harness: the call of update_watchlist_prices_from_plans and its result
    disc,          \* discount harness: the call of apply_memberships_and_coupons and its result
    call           \* the other harnesses: what the last call was given and what it left

sysVars == <<user, trip_session, items, folded, resp, watchlist, store_location>>
parseVars == <<pText, pExisting, pResult, pPc>>
foldVars == <<cPrev, cCur>>
filterVars == <<aConstraints, aUser, aAllowed, aPc>>
concVars == <<reqPc, reqUser, usedAtStart>>
funVars == <<aug, wl, disc, call>>
vars == <<sysVars, parseVars, foldVars, filterVars, concVars, funVars>>

---------------------------------------------------------------------------
(* Bounds of the model *)

\* a generated text is made of at most this many chunks of Chunks
MaxChunks == 2
\* at most this many pending items are created
MaxItems == 2
\* number of concurrent build_plan requests of the one user
NumRequests == 3
\* largest free_plan_runs_limit a user row starts with
MaxRunsLimit == 2

---------------------------------------------------------------------------
(* PlanConstraints *)

\* Optional[int] None
NoneInt == -1

OptimizeFor == {"balanced", "cheapest_overall", "fastest_drive"}

PlanConstraints ==
    [max_stores: {NoneInt, 0, 1, 2, 3},
     avoid_costco: BOOLEAN,
     include_cheapest_gas: BOOLEAN,
     optimize_for: OptimizeFor,
     must_include_costco: BOOLEAN]

DefaultConstraints ==
    [max_stores |-> NoneInt,
     avoid_costco |-> FALSE,
     include_cheapest_gas |-> FALSE,
     optimize_for |-> "balanced",
     must_include_costco |-> FALSE]

---------------------------------------------------------------------------
(* Texts *)

Min(S) == CHOOSE x \in S : \A y \in S : x <= y

\* str.lower() on one word
LowerWord(w) ==
    CASE w = "Avoid" -> "avoid"
      [] w = "COSTCO" -> "costco"
      [] w = "Only" -> "only"
      [] OTHER -> w

\* text.lower()
lower(text) == [i \in 1..Len(text) |-> LowerWord(text[i])]

\* `phrase in t`
Contains(t, phrase) ==
    \E i \in 1..(Len(t) - Len(phrase) + 1) :
        \A j \in 1..Len(phrase) : t[i + j - 1] = phrase[j]

\* \d+ on one word, and int() of it
Digits == {"0", "1", "2", "3"}
IntOf(w) == CASE w = "0" -> 0 [] w = "1" -> 1 [] w = "2" -> 2 [] w = "3" -> 3

\* the word positions after which  rf"{word}\s+(?:to\s+)?(\d+)"  matches at i,
\* as the position of the number
NumberAfter(t, word, i) ==
    LET j == i + Len(word) IN
    IF i + Len(word) - 1 <= Len(t) /\ SubSeq(t, i, i + Len(word) - 1) = word
    THEN IF j <= Len(t) /\ t[j] \in Digits THEN j
         ELSE IF j + 1 <= Len(t) /\ t[j] = "to" /\ t[j + 1] \in Digits THEN j + 1
         ELSE 0
    ELSE 0

\* re.search: the leftmost match of one trigger word, 0 when there is none
SearchNumber(t, word) ==
    LET hits == {i \in 1..Len(t) : NumberAfter(t, word, i) # 0} IN
    IF hits = {} THEN 0 ELSE NumberAfter(t, word, Min(hits))

TriggerWords ==
    << <<"only">>, <<"max">>, <<"at", "most">>, <<"no", "more", "than">>, <<"limit">> >>

\* the first trigger word, in list order, that has a match decides
_parse_int_after(t, trigger_words) ==
    LET matching == {k \in 1..Len(trigger_words) : SearchNumber(t, trigger_words[k]) # 0} IN
    IF matching = {} THEN NoneInt
    ELSE IntOf(t[SearchNumber(t, trigger_words[Min(matching)])])

AvoidPhrases ==
    { <<"avoid", "costco">>, <<"no", "costco">>,
      <<"don't", "go", "to", "costco">>, <<"dont", "go", "to", "costco">> }

IncludePhrases ==
    { <<"only", "costco">>, <<"costco", "+", "one", "grocery">>,
      <<"costco", "and", "one", "grocery">>,
      <<"costco", "and", "one", "other", "grocery">>,
      <<"i", "only", "want", "costco", "+", "one", "grocery", "store">> }

GasPhrases == { <<"cheapest", "gas">>, <<"cheap", "gas">> }

CheapestPhrases ==
    { <<"cheapest", "overall">>, <<"lowest", "total", "cost">>,
      <<"as", "cheap", "as", "possible">>, <<"best", "price">> }

FastestPhrases ==
    { <<"fastest", "drive">>, <<"shortest", "drive">>,
      <<"fastest", "route">>, <<"as", "fast", "as", "possible">> }

ContainsAny(t, phrases) == \E p \in phrases : Contains(t, p)

---------------------------------------------------------------------------
(* parse_constraints_from_text, rule by rule in the order of the code *)

set_max_stores(t, c) ==
    LET n == _parse_int_after(t, TriggerWords) IN
    IF n # NoneInt THEN [c EXCEPT !.max_stores = n] ELSE c

set_one_store_only(t, c) ==
    IF Contains(t, <<"1", "store", "only">>) THEN [c EXCEPT !.max_stores = 1] ELSE c

\* mutant: the avoidance rule forgets to clear must_include_costco
set_avoid_costco_keeps_must(t, c) ==
    IF ContainsAny(t, AvoidPhrases) THEN [c EXCEPT !.avoid_costco = TRUE] ELSE c

set_avoid_costco(t, c) ==
    IF ContainsAny(t, AvoidPhrases)
    THEN [c EXCEPT !.avoid_costco = TRUE, !.must_include_costco = FALSE]
    ELSE c

\* mutant: the inclusion rule forgets to clear avoid_costco
set_must_include_keeps_avoid(t, c) ==
    IF ContainsAny(t, IncludePhrases)
    THEN [c EXCEPT !.must_include_costco = TRUE, !.max_stores = 2]
    ELSE c

set_must_include_costco(t, c) ==
    IF ContainsAny(t, IncludePhrases)
    THEN [c EXCEPT !.must_include_costco = TRUE, !.avoid_costco = FALSE, !.max_stores = 2]
    ELSE c

set_cheapest_gas(t, c) ==
    IF ContainsAny(t, GasPhrases) THEN [c EXCEPT !.include_cheapest_gas = TRUE] ELSE c

\* mutant: the fastest family is tested first
set_optimize_for_fastest_first(t, c) ==
    IF ContainsAny(t, FastestPhrases) THEN [c EXCEPT !.optimize_for = "fastest_drive"]
    ELSE IF ContainsAny(t, CheapestPhrases) THEN [c EXCEPT !.optimize_for = "cheapest_overall"]
    ELSE c

\* mutant: no objective phrase resets the objective to "balanced"
set_optimize_for_resets(t, c) ==
    IF ContainsAny(t, CheapestPhrases) THEN [c EXCEPT !.optimize_for = "cheapest_overall"]
    ELSE IF ContainsAny(t, FastestPhrases) THEN [c EXCEPT !.optimize_for = "fastest_drive"]
    ELSE [c EXCEPT !.optimize_for = "balanced"]

set_optimize_for(t, c) ==
    IF ContainsAny(t, CheapestPhrases) THEN [c EXCEPT !.optimize_for = "cheapest_overall"]
    ELSE IF ContainsAny(t, FastestPhrases) THEN [c EXCEPT !.optimize_for = "fastest_drive"]
    ELSE c

parse_constraints_from_text(text, existing) ==
    LET t == lower(text) IN
    set_optimize_for(t,
      set_cheapest_gas(t,
        set_must_include_costco(t,
          set_avoid_costco(t,
            set_one_store_only(t,
              set_max_stores(t, existing))))))

---------------------------------------------------------------------------
(* Generated texts: up to MaxChunks chunks, one after the other *)

Chunks ==
    AvoidPhrases \cup CheapestPhrases \cup FastestPhrases \cup
    { <<"cheap", "gas">>, <<"only", "costco">>, <<"costco", "and", "one", "grocery">>,
      <<"Avoid", "COSTCO">>, <<"only", "2">>, <<"limit", "to", "0">>,
      <<"1", "store", "only">>, <<"only", "milk">> }

\* the chunks of the texts of repeated parsing
FoldChunks ==
    { <<"avoid", "costco">>, <<"no", "costco">>, <<"only", "costco">>,
      <<"costco", "and", "one", "grocery">>, <<"only", "2">>, <<"1", "store", "only">>,
      <<"cheapest", "overall">>, <<"fastest", "drive">>, <<"cheap", "gas">> }

RECURSIVE TextsOf(_, _)
TextsOf(chunks, n) ==
    IF n = 0 THEN { <<>> }
    ELSE LET shorter == TextsOf(chunks, n - 1) IN
         shorter \cup { t \o ch : t \in shorter, ch \in chunks }

Texts == TextsOf(Chunks, MaxChunks)

FoldTexts == TextsOf(FoldChunks, MaxChunks)

\* values of `existing` the harness calls the parser with
ExistingValues == { c \in PlanConstraints : c.max_stores \in {NoneInt, 3} }

---------------------------------------------------------------------------
(* The texts of the requests, and the parser tabulated *)

\* messages and preference strings the requests carry; <<>> is the empty one
Messages ==
    { <<>>, <<"avoid", "costco">>, <<"only", "2", "stores">>, <<"only", "costco">>,
      <<"limit", "to", "0">>, <<"milk">> }

\* parse_constraints_from_text tabulated once over the texts of the requests
\* (@@ makes each table an explicit one, computed once)
Tabulate(texts) ==
    [text \in texts |->
        [existing \in PlanConstraints |-> parse_constraints_from_text(text, existing)]
        @@ <<>>] @@ <<>>

ParseTable == Tabulate(Messages)

parse_request_text(text, existing) == ParseTable[text][existing]

FoldTable == Tabulate(FoldTexts)

parse_fold_text(text, existing) == FoldTable[text][existing]

---------------------------------------------------------------------------
(* Variables a specification does not use stay at these values *)

\* column defaults of users, and the limits the Stripe webhook sets for premium
FreeItemsLimitDefault == 5
FreePlanRunsLimitDefault == 5
PremiumLimit == 999999

NewUser ==
    [plan |-> "free",
     has_costco_membership |-> FALSE,
     has_costco_addon |-> FALSE,
     free_items_limit |-> FreeItemsLimitDefault,
     free_plan_runs_limit |-> FreePlanRunsLimitDefault,
     free_plan_runs_used |-> 0]

NoSession == [exists |-> FALSE, has_data |-> FALSE, data |-> DefaultConstraints]

NoResponse ==
    [endpoint |-> "none", status |-> 0, text |-> <<>>,
     parsed |-> FALSE, changed |-> FALSE, saved |-> FALSE,
     is_free |-> FALSE, allow_costco |-> FALSE,
     constraints_used |-> DefaultConstraints, allowed |-> {}, plans |-> <<>>,
     recommended_plan |-> "", explanation |-> "", oracle_called |-> FALSE,
     planned |-> <<>>,
     oracle |-> [raised |-> FALSE, recommended_plan |-> "", explanation |-> ""]]

\* no watchlist_items row yet (an item is known by its position among the user's items)
NoWatchlist ==
    [k \in { <<"u1", n>> : n \in 1..MaxItems } |->
        [exists |-> FALSE, is_active |-> FALSE, last_price |-> NoneInt, previous_price |-> NoneInt]]

\* no store_locations row yet
NoLocations ==
    [name \in {"Fred Meyer (demo)", "WarehouseClub", "NeighborhoodMarket"} |-> "none"]

SysParked ==
    /\ user = NewUser
    /\ trip_session = NoSession
    /\ items = <<>>
    /\ folded = DefaultConstraints
    /\ resp = NoResponse
    /\ watchlist = NoWatchlist
    /\ store_location = NoLocations

ParseParked ==
    /\ pText = <<>>
    /\ pExisting = DefaultConstraints
    /\ pResult = DefaultConstraints
    /\ pPc = "done"

FoldParked ==
    /\ cPrev = DefaultConstraints
    /\ cCur = DefaultConstraints

FilterParked ==
    /\ aConstraints = DefaultConstraints
    /\ aUser = NewUser
    /\ aAllowed = {}
    /\ aPc = "done"

ConcParked ==
    /\ reqPc = <<>>
    /\ reqUser = <<>>
    /\ usedAtStart = 0

Off == [pc |-> "off"]

AugParked == aug = Off
WatchParked == wl = Off
DiscParked == disc = Off
CallParked == call = Off

---------------------------------------------------------------------------
(* The parser called once on any text and any existing record *)

InitParse ==
    /\ pText \in Texts
    /\ pExisting \in ExistingValues
    /\ pResult = pExisting
    /\ pPc = "call"
    /\ SysParked /\ FoldParked /\ FilterParked /\ ConcParked
    /\ AugParked /\ WatchParked /\ DiscParked /\ CallParked

ParseCall ==
    /\ pPc = "call"
    /\ pResult' = parse_constraints_from_text(pText, pExisting)
    /\ pPc' = "done"
    /\ UNCHANGED <<pText, pExisting, sysVars, foldVars, filterVars, concVars, funVars>>

SpecParse == InitParse /\ [][ParseCall]_vars

---------------------------------------------------------------------------
(* The parser called again and again on the record it returned, from the default *)

InitFold ==
    /\ cPrev = DefaultConstraints
    /\ cCur = DefaultConstraints
    /\ SysParked /\ ParseParked /\ FilterParked /\ ConcParked
    /\ AugParked /\ WatchParked /\ DiscParked /\ CallParked

FoldCall ==
    /\ \E text \in FoldTexts :
          /\ cPrev' = cCur
          /\ cCur' = parse_fold_text(text, cCur)
    /\ UNCHANGED <<sysVars, parseVars, filterVars, concVars, funVars>>

SpecFold == InitFold /\ [][FoldCall]_vars

---------------------------------------------------------------------------
(* Trip session helpers *)

\* get_or_create_trip_session: the row, created with constraints = {} when missing
get_or_create_trip_session(sess) ==
    IF sess.exists THEN sess
    ELSE [exists |-> TRUE, has_data |-> FALSE, data |-> DefaultConstraints]

\* load_constraints: PlanConstraints(**data); {} gives the defaults
load_constraints(sess) ==
    IF sess.has_data THEN sess.data ELSE DefaultConstraints

\* save_constraints: sess.constraints = constraints.model_dump(), committed
save_constraints(sess, constraints) ==
    [sess EXCEPT !.has_data = TRUE, !.data = constraints]

\* What the caller's `existing_constraints` reads as after
\* parse_constraints_from_text(text, existing_constraints) returned: the parser
\* binds c to the caller's object (`c = existing or PlanConstraints()`, a model
\* instance is truthy), assigns its fields in place and returns it, so the
\* caller's variable and the returned value are one object.
existing_after_parse(text, existing) ==
    parse_request_text(text, existing)

---------------------------------------------------------------------------
(* Candidate plans and the admissibility filter of build_plan *)

FRED_MEYER_STORE_NAME == "Fred Meyer (demo)"

PlanKeys == <<"one_store", "two_store", "three_store">>

\* minutes are kept in tenths of a minute: 10.0 is 100
one_store_plan ==
    [number_of_stores |-> 1, stores |-> <<FRED_MEYER_STORE_NAME>>,
     distance_minutes |-> <<100>>, travel_minutes |-> 100]

two_store_plan ==
    [number_of_stores |-> 2, stores |-> <<FRED_MEYER_STORE_NAME, "WarehouseClub">>,
     distance_minutes |-> <<100, 180>>, travel_minutes |-> 180]

three_store_plan ==
    [number_of_stores |-> 3,
     stores |-> <<FRED_MEYER_STORE_NAME, "WarehouseClub", "NeighborhoodMarket">>,
     distance_minutes |-> <<100, 180, 120>>, travel_minutes |-> 200]

CandidatePlan(key) ==
    CASE key = "one_store" -> one_store_plan
      [] key = "two_store" -> two_store_plan
      [] key = "three_store" -> three_store_plan

\* any(s.get("name") == "WarehouseClub" for s in plan_dict.get("stores", []))
HasWarehouseClub(plan_dict) ==
    \E i \in 1..Len(plan_dict.stores) : plan_dict.stores[i] = "WarehouseClub"

\* mutant: the free-tier rule is missing
plan_allowed_no_tier_rule(plan_dict, constraints_used, is_free, allow_costco) ==
    LET n == plan_dict.number_of_stores IN
    IF constraints_used.max_stores # NoneInt /\ n > constraints_used.max_stores THEN FALSE
    ELSE IF constraints_used.avoid_costco /\ HasWarehouseClub(plan_dict) THEN FALSE
    ELSE IF constraints_used.must_include_costco /\ ~HasWarehouseClub(plan_dict) THEN FALSE
    ELSE IF ~allow_costco /\ HasWarehouseClub(plan_dict) THEN FALSE
    ELSE TRUE

\* mutant: the rules that keep WarehouseClub out are missing
plan_allowed_no_costco_rules(plan_dict, constraints_used, is_free, allow_costco) ==
    LET n == plan_dict.number_of_stores IN
    IF constraints_used.max_stores # NoneInt /\ n > constraints_used.max_stores THEN FALSE
    ELSE IF constraints_used.must_include_costco /\ ~HasWarehouseClub(plan_dict) THEN FALSE
    ELSE IF is_free /\ n > 1 THEN FALSE
    ELSE TRUE

\* mutant: the store cap is compared with >=
plan_allowed_cap_off_by_one(plan_dict, constraints_used, is_free, allow_costco) ==
    LET n == plan_dict.number_of_stores IN
    IF constraints_used.max_stores # NoneInt /\ n >= constraints_used.max_stores THEN FALSE
    ELSE IF constraints_used.avoid_costco /\ HasWarehouseClub(plan_dict) THEN FALSE
    ELSE IF constraints_used.must_include_costco /\ ~HasWarehouseClub(plan_dict) THEN FALSE
    ELSE IF is_free /\ n > 1 THEN FALSE
    ELSE IF ~allow_costco /\ HasWarehouseClub(plan_dict) THEN FALSE
    ELSE TRUE

plan_allowed(plan_dict, constraints_used, is_free, allow_costco) ==
    LET n == plan_dict.number_of_stores IN
    IF constraints_used.max_stores # NoneInt /\ n > constraints_used.max_stores THEN FALSE
    ELSE IF constraints_used.avoid_costco /\ HasWarehouseClub(plan_dict) THEN FALSE
    ELSE IF constraints_used.must_include_costco /\ ~HasWarehouseClub(plan_dict) THEN FALSE
    ELSE IF is_free /\ n > 1 THEN FALSE
    ELSE IF ~allow_costco /\ HasWarehouseClub(plan_dict) THEN FALSE
    ELSE TRUE

\* mutant: the fallback when nothing passed is the three-store plan
surviving_plans_fallback_three_store(allowed) ==
    LET kept == SelectSeq(PlanKeys, LAMBDA k : k \in allowed) IN
    IF kept = <<>> THEN <<"three_store">> ELSE kept

\* the keys of `plans` after step 7, in insertion order, given which candidates passed
surviving_plans(allowed) ==
    LET kept == SelectSeq(PlanKeys, LAMBDA k : k \in allowed) IN
    IF kept = <<>> THEN <<"one_store">> ELSE kept

\* is_free = (user.plan or "free") == "free"
IsFree(u) == (IF u.plan = "" THEN "free" ELSE u.plan) = "free"

\* allow_costco = bool(user.has_costco_membership or user.has_costco_addon)
AllowCostco(u) == u.has_costco_membership \/ u.has_costco_addon

SeqToSet(q) == { q[i] : i \in 1..Len(q) }

---------------------------------------------------------------------------
(* The admissibility filter applied to the three candidates on any inputs *)

\* users rows of either tier (plan "" is an unset plan), with any club flags
FilterUsers ==
    { [NewUser EXCEPT !.plan = p, !.has_costco_membership = m, !.has_costco_addon = a] :
        p \in {"free", "premium", ""}, m \in BOOLEAN, a \in BOOLEAN }

InitFilter ==
    /\ aConstraints \in PlanConstraints
    /\ aUser \in FilterUsers
    /\ aAllowed = {}
    /\ aPc = "call"
    /\ SysParked /\ ParseParked /\ FoldParked /\ ConcParked
    /\ AugParked /\ WatchParked /\ DiscParked /\ CallParked

FilterCall ==
    /\ aPc = "call"
    /\ aAllowed' = { k \in SeqToSet(PlanKeys) :
                       plan_allowed(CandidatePlan(k), aConstraints,
                                    IsFree(aUser), AllowCostco(aUser)) }
    /\ aPc' = "done"
    /\ UNCHANGED <<aConstraints, aUser, sysVars, parseVars, foldVars, concVars, funVars>>

SpecFilter == InitFilter /\ [][FilterCall]_vars

---------------------------------------------------------------------------
(* Concurrent build_plan requests of one free-tier user: each request has its *)
(* own database session, reads the users row, and later commits its update.   *)

Requests == 1..NumRequests

InitConc ==
    /\ \E limit \in 1..MaxRunsLimit, used \in 0..MaxRunsLimit :
          /\ used <= limit
          /\ user = [NewUser EXCEPT !.free_plan_runs_limit = limit,
                                    !.free_plan_runs_used = used]
          /\ usedAtStart = used
    /\ reqPc = [r \in Requests |-> "start"]
    /\ reqUser = [r \in Requests |-> user]
    /\ trip_session = NoSession
    /\ items = <<>>
    /\ folded = DefaultConstraints
    /\ resp = NoResponse
    /\ watchlist = NoWatchlist
    /\ store_location = NoLocations
    /\ ParseParked /\ FoldParked /\ FilterParked
    /\ AugParked /\ WatchParked /\ DiscParked /\ CallParked

\* step 1: db.query(User).filter(User.id == payload.user_id).first()
LoadUser(r) ==
    /\ reqPc[r] = "start"
    /\ reqUser' = [reqUser EXCEPT ![r] = user]
    /\ reqPc' = [reqPc EXCEPT ![r] = "loaded"]
    /\ UNCHANGED <<sysVars, usedAtStart, parseVars, foldVars, filterVars, funVars>>

\* the exhaustion check on the loaded row raises 402
RejectRun(r) ==
    /\ reqPc[r] = "loaded"
    /\ IsFree(reqUser[r])
    /\ reqUser[r].free_plan_runs_used >= reqUser[r].free_plan_runs_limit
    /\ reqPc' = [reqPc EXCEPT ![r] = "rejected"]
    /\ UNCHANGED <<sysVars, usedAtStart, reqUser, parseVars, foldVars, filterVars, funVars>>

\* user.free_plan_runs_used += 1 on the loaded row; db.commit() writes that value
CommitRun(r) ==
    /\ reqPc[r] = "loaded"
    /\ IsFree(reqUser[r])
    /\ reqUser[r].free_plan_runs_used < reqUser[r].free_plan_runs_limit
    /\ user' = [user EXCEPT !.free_plan_runs_used = reqUser[r].free_plan_runs_used + 1]
    /\ reqUser' = [reqUser EXCEPT ![r].free_plan_runs_used = @ + 1]
    /\ reqPc' = [reqPc EXCEPT ![r] = "admitted"]
    /\ UNCHANGED <<trip_session, items, folded, resp, watchlist, store_location>>
    /\ UNCHANGED <<usedAtStart, parseVars, foldVars, filterVars, funVars>>

NextConc == \E r \in Requests : LoadUser(r) \/ RejectRun(r) \/ CommitRun(r)

SpecConc == InitConc /\ [][NextConc]_vars

---------------------------------------------------------------------------
(* Google Maps calls, the store location cache and the drive-time augmenter *)

\* a StoreLocation of a store name: no row, a row without latitude/longitude,
\* or a row with coordinates
LocStates == {"none", "row", "coords"}

\* _ensure_api_key: raises GoogleMapsConfigError when the key is not set
api_key_missing(env) == ~env.key

\* find_place_lat_lng: a place with lat/lng, or None; raises without the key
\* (TRUE: a place was returned)
find_place_lat_lng(env, name) == env.geo[name]

\* get_or_create_store_location: the state of the location row it returns.
\* A row with coordinates is returned as it is; otherwise the row is created
\* when missing and Places is asked, any exception of the call read as no place.
get_or_create_store_location(loc, env, name) ==
    IF loc = "coords" THEN "coords"
    ELSE LET place == IF api_key_missing(env) THEN FALSE ELSE find_place_lat_lng(env, name) IN
         IF place THEN "coords" ELSE "row"

\* float(duration_sec) / 60.0 rounded to one decimal, in tenths of a minute
\* (no duration of the model falls on a tie)
RoundTenths(sec) == (sec + 3) \div 6

RECURSIVE SumSeq(_)
SumSeq(q) == IF q = <<>> THEN 0 ELSE Head(q) + SumSeq(Tail(q))

\* mutant: only the first store's coordinates are looked at
first_missing_coordinates(stores, locs) ==
    locs[stores[1]] # "coords"

\* any(loc.latitude is None or loc.longitude is None for loc in store_locations)
any_missing_coordinates(stores, locs) ==
    \E i \in 1..Len(stores) : locs[stores[i]] # "coords"

\* augment_plan_with_drive_times: the plan's minutes and the location rows after
\* the call, and whether the call raised. env.dist[i] is what the Distance
\* Matrix call of step 2 for store i returns, env.leg[k] what the k-th call of
\* step 3 returns (seconds, NoneInt for None).
augment_plan_with_drive_times(plan, origin_in, destination_in, locs, env) ==
    LET stores == plan.stores
        n == Len(stores)
        origin_text == origin_in
        destination_text == IF destination_in = "" THEN origin_text ELSE destination_in
        untouched == [distance_minutes |-> plan.distance_minutes,
                      travel_minutes |-> plan.travel_minutes,
                      locs |-> locs, raised |-> FALSE]
        resolved == [name \in DOMAIN locs |->
                        IF name \in SeqToSet(stores)
                        THEN get_or_create_store_location(locs[name], env, name)
                        ELSE locs[name]]
        mins == [i \in 1..n |-> IF origin_text # "" THEN env.dist[i] ELSE NoneInt]
        legs == [k \in 1..(n + 1) |->
                    IF k = 1 /\ origin_text = "" THEN NoneInt ELSE env.leg[k]]
        total_travel == SumSeq([k \in 1..(n + 1) |-> IF legs[k] # NoneInt THEN legs[k] ELSE 0])
    IN
    IF n = 0 THEN untouched
    ELSE IF origin_in = "" /\ destination_in = "" THEN untouched
    ELSE IF any_missing_coordinates(stores, resolved)
    THEN [untouched EXCEPT !.locs = resolved]
    ELSE IF api_key_missing(env)
    THEN [untouched EXCEPT !.locs = resolved, !.raised = TRUE]
    ELSE [distance_minutes |->
              [i \in 1..n |-> IF mins[i] # NoneInt THEN RoundTenths(mins[i])
                              ELSE plan.distance_minutes[i]],
          travel_minutes |->
              IF total_travel > 0 THEN RoundTenths(total_travel) ELSE plan.travel_minutes,
          locs |-> resolved,
          raised |-> FALSE]

\* what a Distance Matrix call returns: None, or a duration in seconds
DriveOutcomes == {NoneInt, 0, 400}

\* the plans the harness augments
AugmentPlans == {"one_store", "two_store"}

\* origin and destination texts, "" the blank one
OriginTexts == {"", "97229"}
DestinationTexts == {"", "97006"}

InitAugment ==
    /\ \E key \in AugmentPlans, origin \in OriginTexts, destination \in DestinationTexts,
          has_key \in BOOLEAN :
          LET stores == CandidatePlan(key).stores
              n == Len(stores)
          IN \E locs \in [SeqToSet(stores) -> LocStates],
                geo \in [SeqToSet(stores) -> BOOLEAN],
                dist \in [1..n -> DriveOutcomes],
                leg \in [1..(n + 1) -> DriveOutcomes] :
                aug = [pc |-> "call", plan |-> key, origin |-> origin,
                       destination |-> destination, locs |-> locs,
                       env |-> [key |-> has_key, geo |-> geo, dist |-> dist, leg |-> leg],
                       out |-> [distance_minutes |-> CandidatePlan(key).distance_minutes,
                                travel_minutes |-> CandidatePlan(key).travel_minutes,
                                locs |-> locs, raised |-> FALSE]]
    /\ SysParked /\ ParseParked /\ FoldParked /\ FilterParked /\ ConcParked
    /\ WatchParked /\ DiscParked /\ CallParked

AugmentCall ==
    /\ aug.pc = "call"
    /\ aug' = [aug EXCEPT !.pc = "done",
                          !.out = augment_plan_with_drive_times(
                                      CandidatePlan(aug.plan), aug.origin, aug.destination,
                                      aug.locs, aug.env)]
    /\ UNCHANGED <<sysVars, parseVars, foldVars, filterVars, concVars, wl, disc, call>>

SpecAugment == InitAugment /\ [][AugmentCall]_vars

---------------------------------------------------------------------------
(* Watchlist price tracking. Prices are kept in cents (Numeric(10, 2)). *)

\* a rows row of a (user, item) pair, or no row; NoneInt is a NULL price
NoRow == [exists |-> FALSE, is_active |-> FALSE, last_price |-> NoneInt,
          previous_price |-> NoneInt]

WatchRow(active, last, previous) ==
    [exists |-> TRUE, is_active |-> active, last_price |-> last, previous_price |-> previous]

\* the ids of the items of the plans that carry an id and a price
priced_ids(plans) ==
    UNION { { plans[p].items[i].id : i \in 1..Len(plans[p].items) } :
            p \in 1..Len(plans) } \ {NoneInt}

\* mutant: the last plan's price replaces the ones seen before
latest_prices_last_seen(plans) ==
    [id \in priced_ids(plans) |->
        LET last == CHOOSE p \in 1..Len(plans) :
                        /\ \E i \in 1..Len(plans[p].items) : plans[p].items[i].id = id
                        /\ \A q \in (p + 1)..Len(plans) :
                              \A i \in 1..Len(plans[q].items) : plans[q].items[i].id # id
            i == CHOOSE i \in 1..Len(plans[last].items) : plans[last].items[i].id = id
        IN plans[last].items[i].estimated_price]

\* latest_prices: for every item id, the lowest estimated_price over the plans
latest_prices(plans) ==
    [id \in priced_ids(plans) |->
        Min(UNION { { plans[p].items[i].estimated_price :
                        i \in { j \in 1..Len(plans[p].items) : plans[p].items[j].id = id } } :
                    p \in 1..Len(plans) })]

\* mutant: inactive rows are selected too
watched_items_any_status(rows, user_id, ids) ==
    { k \in DOMAIN rows :
        rows[k].exists /\ k[1] = user_id /\ k[2] \in ids }

\* the query: the user's active rows whose item is among the priced ids
watched_items(rows, user_id, ids) ==
    { k \in DOMAIN rows :
        rows[k].exists /\ k[1] = user_id /\ rows[k].is_active /\ k[2] \in ids }

\* mutant: the old last_price is not kept
record_price_no_shift(row, new_price) ==
    [row EXCEPT !.last_price = new_price]

\* previous_price <- last_price when there is one; last_price <- new_price
record_price(row, new_price) ==
    IF row.last_price # NoneInt
    THEN [row EXCEPT !.previous_price = row.last_price, !.last_price = new_price]
    ELSE [row EXCEPT !.last_price = new_price]

\* update_watchlist_prices_from_plans: the rows rows after the call
update_watchlist_prices_from_plans(rows, user_id, plans) ==
    IF plans = <<>> \/ priced_ids(plans) = {} THEN rows
    ELSE LET latest == latest_prices(plans)
             selected == watched_items(rows, user_id, DOMAIN latest)
         IN [k \in DOMAIN rows |->
                IF k \in selected THEN record_price(rows[k], latest[k[2]])
                ELSE rows[k]]

\* GET /rows/price-drops/{user_id}: item and drop of the user's active
\* rows with both prices and last_price < previous_price
get_price_drops(rows, user_id) ==
    { [item_id |-> k[2], last_price |-> rows[k].last_price,
       previous_price |-> rows[k].previous_price,
       price_drop |-> rows[k].previous_price - rows[k].last_price] :
        k \in { k \in DOMAIN rows :
                  /\ rows[k].exists /\ k[1] = user_id /\ rows[k].is_active
                  /\ rows[k].last_price # NoneInt
                  /\ rows[k].previous_price # NoneInt
                  /\ rows[k].last_price < rows[k].previous_price } }

\* the rows a watchlist row of the harness starts as
WatchRowValues ==
    {NoRow} \cup
    { WatchRow(active, prices[1], prices[2]) :
        active \in BOOLEAN,
        prices \in { <<NoneInt, NoneInt>>, <<500, NoneInt>>, <<500, 600>> } }

\* estimated prices of the watched item in a candidate plan
WatchPrices == {450, 500, 600}

\* the (user, item) pairs of the harness: item 1 is in every plan, item 2 is in
\* the plans or not, and another user watches item 1 too
WatchKeys == { <<"u1", 1>>, <<"u1", 2>>, <<"u2", 1>> }

\* the items of candidate `key`: item 1 at its price in that candidate, and
\* item 2 when it is planned
WatchPlanItems(price, with_second) ==
    <<[id |-> 1, estimated_price |-> price]>> \o
    (IF with_second THEN <<[id |-> 2, estimated_price |-> 700]>> ELSE <<>>)

InitWatch ==
    /\ \E price \in [SeqToSet(PlanKeys) -> WatchPrices], with_second \in BOOLEAN,
          allowed \in SUBSET SeqToSet(PlanKeys),
          first \in WatchRowValues, second \in WatchRowValues,
          other \in {NoRow, WatchRow(TRUE, 500, NoneInt)} :
          LET rows == [k \in WatchKeys |->
                          IF k = <<"u1", 1>> THEN first
                          ELSE IF k = <<"u1", 2>> THEN second ELSE other]
          IN wl = [pc |-> "call", user_id |-> "u1",
                   items |-> [key \in SeqToSet(PlanKeys) |->
                                 WatchPlanItems(price[key], with_second)],
                   allowed |-> allowed, before |-> rows, after |-> rows, plans |-> <<>>]
    /\ SysParked /\ ParseParked /\ FoldParked /\ FilterParked /\ ConcParked
    /\ AugParked /\ DiscParked /\ CallParked

\* steps 7 and 9 of build_plan: the plans that survive, then the price update
WatchlistUpdate ==
    /\ wl.pc = "call"
    /\ LET keys == surviving_plans(wl.allowed)
           plans == [p \in 1..Len(keys) |-> [items |-> wl.items[keys[p]]]]
       IN wl' = [wl EXCEPT !.pc = "done", !.plans = keys,
                           !.after = update_watchlist_prices_from_plans(
                                         wl.before, wl.user_id, plans)]
    /\ UNCHANGED <<sysVars, parseVars, foldVars, filterVars, concVars, aug, disc, call>>

SpecWatch == InitWatch /\ [][WatchlistUpdate]_vars

---------------------------------------------------------------------------
(* Memberships and coupons. Prices and totals are in cents; a discount before
   rounding is in hundredths of a cent. *)

Max(S) == CHOOSE x \in S : \A y \in S : x >= y

\* round(x, 2) of an amount given in hundredths of a cent, as cents
RoundCents(x) == (x + 50) \div 100

\* member_brands: the store names of the user's active membership records
member_brands(memberships) ==
    { mem.store_name : mem \in { x \in memberships : x.is_active } }

\* subtotal_by_store.get(store_name, 0.0): an item without a store_name counts
\* for the plan's first store
subtotal_by_store(plan, store_name) ==
    LET default_store_name == IF plan.stores # <<>> THEN plan.stores[1] ELSE "Unknown"
        price(i) == IF (IF plan.items[i].store_name # "" THEN plan.items[i].store_name
                        ELSE default_store_name) = store_name
                    THEN plan.items[i].estimated_price ELSE 0
    IN SumSeq([i \in 1..Len(plan.items) |-> price(i)])

\* rule 1: 5% of the WarehouseClub subtotal for a member of WarehouseClub
membership_discount(plan, brands) ==
    IF "WarehouseClub" \in brands /\ subtotal_by_store(plan, "WarehouseClub") > 0
    THEN 5 * subtotal_by_store(plan, "WarehouseClub") ELSE 0

\* rule 2: $5 off a Fred Meyer basket of $50 or more
coupon_discount(plan) ==
    IF subtotal_by_store(plan, FRED_MEYER_STORE_NAME) >= 5000 THEN 50000 ELSE 0

\* mutant: the larger of the two rules instead of their sum
total_discount_no_stacking(plan, brands) ==
    Max({membership_discount(plan, brands), coupon_discount(plan)})

\* total_discount: the rules that apply, added up
total_discount(plan, brands) ==
    membership_discount(plan, brands) + coupon_discount(plan)

\* the descriptions appended, in rule order
discount_descriptions(plan, brands) ==
    (IF membership_discount(plan, brands) > 0 THEN <<"membership">> ELSE <<>>) \o
    (IF coupon_discount(plan) > 0 THEN <<"coupon">> ELSE <<>>)

\* mutant: a plan without a discount gets no discounts list
write_discounts_when_applied(plan, discount, descriptions) ==
    IF discount > 0
    THEN [plan EXCEPT !.total_price = Max({plan.total_price - RoundCents(discount), 0}),
                      !.has_discounts = TRUE, !.discounts = descriptions]
    ELSE plan

\* the writes to the plan: the new total and the list, or an empty list
write_discounts(plan, discount, descriptions) ==
    IF discount > 0
    THEN [plan EXCEPT !.total_price = Max({plan.total_price - RoundCents(discount), 0}),
                      !.has_discounts = TRUE, !.discounts = descriptions]
    ELSE IF ~plan.has_discounts
         THEN [plan EXCEPT !.has_discounts = TRUE, !.discounts = <<>>]
         ELSE plan

\* apply_memberships_and_coupons: every plan after the call
apply_memberships_and_coupons(memberships, plans) ==
    LET brands == member_brands(memberships) IN
    [p \in 1..Len(plans) |->
        write_discounts(plans[p], total_discount(plans[p], brands),
                        discount_descriptions(plans[p], brands))]

\* the stores an item of the harness is bought at ("" is an item without one)
DiscStores == {FRED_MEYER_STORE_NAME, "WarehouseClub", "NeighborhoodMarket", ""}

\* the item prices of the harness: around the coupon threshold, and one whose
\* 5% is not a whole cent
DiscPrices == {367, 4000, 4999, 5000, 6000}

DiscItems == [store_name : DiscStores, estimated_price : DiscPrices]

\* a plan as build_plan hands it over: Fred Meyer first, the total is the sum
\* of the item prices, and no discounts key yet
DiscPlan(plan_items) ==
    [stores |-> <<FRED_MEYER_STORE_NAME, "WarehouseClub">>, items |-> plan_items,
     total_price |-> SumSeq([i \in 1..Len(plan_items) |-> plan_items[i].estimated_price]),
     has_discounts |-> FALSE, discounts |-> <<>>]

\* the membership records a user of the harness has
DiscMemberships ==
    { {}, {[store_name |-> "WarehouseClub", is_active |-> TRUE]},
      {[store_name |-> "WarehouseClub", is_active |-> FALSE]},
      {[store_name |-> "Costco", is_active |-> TRUE]} }

InitDiscount ==
    /\ \E first \in [{1} -> DiscItems] \cup [{1, 2} -> DiscItems],
          second \in {<<>>} \cup [{1} -> DiscItems],
          memberships \in DiscMemberships :
          LET plans == <<DiscPlan(first)>> \o
                       (IF second = <<>> THEN <<>> ELSE <<DiscPlan(second)>>)
          IN disc = [pc |-> "call", memberships |-> memberships,
                     before |-> plans, after |-> plans]
    /\ SysParked /\ ParseParked /\ FoldParked /\ FilterParked /\ ConcParked
    /\ AugParked /\ WatchParked /\ CallParked

\* step 8 of build_plan
DiscountCall ==
    /\ disc.pc = "call"
    /\ disc' = [disc EXCEPT !.pc = "done",
                   !.after = apply_memberships_and_coupons(disc.memberships, disc.before)]
    /\ UNCHANGED <<sysVars, parseVars, foldVars, filterVars, concVars, aug, wl, call>>

SpecDiscount == InitDiscount /\ [][DiscountCall]_vars

---------------------------------------------------------------------------
(* Plan generator: the price of every pending item in each candidate plan *)

\* estimate_price_for_item: base price in cents
base_price(cat) ==
    CASE cat = "milk" -> 399
      [] cat = "eggs" -> 249
      [] cat = "cereal" -> 499
      [] cat = "tablet" -> 69900
      [] cat = "detergent" -> 1299
      [] OTHER -> 500

\* estimate_price_for_item: store multiplier in hundredths
multiplier(store_kind) ==
    IF store_kind \in {"store_a", "fred_meyer"} THEN 100
    ELSE IF store_kind \in {"store_b", "warehouse_club"} THEN 92
    ELSE 105

\* mutant: the quantity as stored
effective_quantity_as_stored(quantity) == quantity

\* max(quantity, 1)
effective_quantity(quantity) == Max({quantity, 1})

\* round(base * multiplier * max(quantity, 1), 2), in cents
estimate_price_for_item(intent, store_kind) ==
    RoundCents(base_price(intent.canonical_category) * multiplier(store_kind)
                 * effective_quantity(intent.quantity))

\* the price of the catalog's best match of a category for an intent without
\* attributes: the first SKU of the category, or none
catalog_price(cat) ==
    CASE cat = "milk" -> 379
      [] cat = "eggs" -> 249
      [] cat = "cereal" -> 429
      [] cat = "detergent" -> 1499
      [] OTHER -> NoneInt

\* price_from_catalog(intent)["price"]
price_from_catalog(intent) ==
    IF catalog_price(intent.canonical_category) = NoneInt THEN NoneInt
    ELSE catalog_price(intent.canonical_category) * effective_quantity(intent.quantity)

\* a Fred Meyer item: the catalog price, or the estimate when there is none
fred_meyer_price(intent) ==
    IF price_from_catalog(intent) # NoneInt THEN price_from_catalog(intent)
    ELSE estimate_price_for_item(intent, "fred_meyer")

\* mutant: the three-store plan sends detergent to the club store as well
store_kind_for_detergent_at_club(key, cat) ==
    IF key = "one_store" THEN "fred_meyer"
    ELSE IF cat \in {"milk", "eggs", "cereal", "detergent"} THEN "warehouse_club"
    ELSE IF key = "two_store" THEN "fred_meyer"
    ELSE "neighborhood"

\* the store_kind of a category in each candidate plan
store_kind_for(key, cat) ==
    IF key = "one_store" THEN "fred_meyer"
    ELSE IF key = "two_store"
    THEN IF cat \in {"milk", "eggs", "cereal", "detergent"} THEN "warehouse_club"
         ELSE "fred_meyer"
    ELSE IF cat \in {"milk", "eggs", "cereal"} THEN "warehouse_club"
    ELSE IF cat = "detergent" THEN "fred_meyer"
    ELSE "neighborhood"

\* the store and price of one intent in each candidate plan
plan_item(key, intent, id) ==
    LET store_kind == store_kind_for(key, intent.canonical_category) IN
    IF store_kind = "warehouse_club"
    THEN [id |-> id, store_name |-> "WarehouseClub",
          estimated_price |-> estimate_price_for_item(intent, "warehouse_club")]
    ELSE IF store_kind = "fred_meyer"
    THEN [id |-> id, store_name |-> FRED_MEYER_STORE_NAME,
          estimated_price |-> fred_meyer_price(intent)]
    ELSE [id |-> id, store_name |-> "NeighborhoodMarket",
          estimated_price |-> estimate_price_for_item(intent, "neighborhood")]

\* one_items, two_items, three_items: an item per intent, in order
plan_items(key, intents) ==
    [n \in 1..Len(intents) |-> plan_item(key, intents[n], n)]

---------------------------------------------------------------------------
(* The plan generator called on any pending items *)

\* canonical_category values of the pending items
GenCategories == {"milk", "eggs", "cereal", "detergent", "tablet", "other"}

\* quantity values of the pending items (the LLM's number is stored as it is)
GenQuantities == {-2, 0, 1, 3}

GenIntents == [canonical_category : GenCategories, quantity : GenQuantities]

InitGenerate ==
    /\ \E intents \in [{1} -> GenIntents] \cup [{1, 2} -> GenIntents] :
          call = [pc |-> "call", intents |-> intents,
                  plans |-> [key \in SeqToSet(PlanKeys) |-> <<>>]]
    /\ SysParked /\ ParseParked /\ FoldParked /\ FilterParked /\ ConcParked
    /\ AugParked /\ WatchParked /\ DiscParked

\* step 5 of build_plan: one_items, two_items and three_items
GeneratePlans ==
    /\ call.pc = "call"
    /\ call' = [call EXCEPT !.pc = "done",
                   !.plans = [key \in SeqToSet(PlanKeys) |-> plan_items(key, call.intents)]]
    /\ UNCHANGED <<sysVars, parseVars, foldVars, filterVars, concVars, aug, wl, disc>>

SpecGenerate == InitGenerate /\ [][GeneratePlans]_vars

---------------------------------------------------------------------------
(* The endpoints, one request at a time *)

\* the outcomes of call_llm_for_intents: it raises, or returns the normalised intents
Intent(cat, clarify) == [canonical_category |-> cat, needs_clarification |-> clarify]
LlmIntentLists ==
    { <<>>, <<Intent("milk", FALSE)>>, <<Intent("other", FALSE)>>, <<Intent("milk", TRUE)>> }
LlmResults ==
    { [raised |-> TRUE, intents |-> <<>>] } \cup
    { [raised |-> FALSE, intents |-> l] : l \in LlmIntentLists }

ShoppingKeywords == { "milk", "eggs", "cereal", "detergent" }

\* looks_like_shopping_request: a keyword, or a digit
looks_like_shopping_request(msg) ==
    \E i \in 1..Len(msg) : LowerWord(msg[i]) \in ShoppingKeywords \/ msg[i] \in Digits

Init ==
    /\ \E member \in BOOLEAN :
          user = [NewUser EXCEPT !.has_costco_membership = member,
                                 !.free_plan_runs_limit = MaxRunsLimit]
    /\ trip_session = NoSession
    /\ items = <<>>
    /\ folded = DefaultConstraints
    /\ resp = NoResponse
    /\ watchlist = NoWatchlist
    /\ store_location = NoLocations
    /\ ParseParked /\ FoldParked /\ FilterParked /\ ConcParked
    /\ AugParked /\ WatchParked /\ DiscParked /\ CallParked

Respond(endpoint, status, text) ==
    [NoResponse EXCEPT !.endpoint = endpoint, !.status = status, !.text = text]

\* mutant: only the first intent is looked at
any_needs_clarification_first_only(intents_data) ==
    intents_data # <<>> /\ intents_data[1].needs_clarification

\* step 6 of chat_assistant: any(intent.get("needs_clarification", False) ...)
any_needs_clarification(intents_data) ==
    \E i \in 1..Len(intents_data) : intents_data[i].needs_clarification

\* mutant: every intent is persisted
intents_to_save_untruncated(intents_data, is_free, slots_remaining) == intents_data

\* step 8 of chat_assistant: the intents to persist
intents_to_save(intents_data, is_free, slots_remaining) ==
    IF is_free /\ Len(intents_data) > slots_remaining
    THEN SubSeq(intents_data, 1, slots_remaining) ELSE intents_data

\* POST /chat/assistant
chat_assistant(message, llm_result) ==
    LET sess == get_or_create_trip_session(trip_session)
        existing_constraints == load_constraints(sess)
        updated_constraints == parse_request_text(message, existing_constraints)
        existing_seen == existing_after_parse(message, existing_constraints)
        differs == updated_constraints # existing_seen
        is_free == IsFree(user)
        intents_data == llm_result.intents
        limit == IF user.free_items_limit = 0 THEN FreeItemsLimitDefault
                 ELSE user.free_items_limit
        existing_pending == Len(items)
        full == is_free /\ existing_pending >= limit
        slots_remaining == Max({limit - existing_pending, 0})
        to_save == intents_to_save(intents_data, is_free, slots_remaining)
        new_items ==
            [i \in 1..Len(to_save) |->
                [canonical_category |-> to_save[i].canonical_category, quantity |-> 1]]
        r == Respond("chat", 200, message)
    IN
    IF message = <<>>
    THEN /\ trip_session' = sess
         /\ resp' = r
         /\ UNCHANGED <<user, items, folded>>
    ELSE
      /\ trip_session' = IF differs THEN save_constraints(sess, updated_constraints) ELSE sess
      /\ folded' = parse_request_text(message, folded)
      /\ UNCHANGED user
      /\ LET parsed == [r EXCEPT !.parsed = TRUE, !.saved = differs,
                               !.changed = (updated_constraints # existing_constraints)] IN
         IF llm_result.raised
         THEN /\ resp' = [parsed EXCEPT !.status = 500]
              /\ UNCHANGED items
         ELSE IF (intents_data = <<>> /\ looks_like_shopping_request(message))
                 \/ any_needs_clarification(intents_data)
                 \/ intents_data = <<>>
                 \/ full
         THEN /\ resp' = parsed
              /\ UNCHANGED items
         ELSE /\ Len(items) + Len(new_items) <= MaxItems
              /\ items' = items \o new_items
              /\ resp' = parsed

ChatAssistant ==
    /\ \E message \in Messages, llm_result \in LlmResults :
          chat_assistant(message, llm_result)
    /\ UNCHANGED <<watchlist, store_location>>
    /\ UNCHANGED <<parseVars, foldVars, filterVars, concVars, funVars>>

\* what the ranking oracle does when asked: the call raises (an exception, or
\* content that is not a JSON object), or it returns a recommended_plan, which
\* may be no offered key ("bogus" stands for any such value, a missing one
\* included), and an explanation, which may be missing ("")
OracleOutcomes ==
    { [raised |-> TRUE, recommended_plan |-> "", explanation |-> ""] } \cup
    { [raised |-> FALSE, recommended_plan |-> key, explanation |-> text] :
        key \in {"three_store", "bogus"},
        text \in {"oracle", ""} }

\* the outcome when the oracle is not asked
NoOracle == [raised |-> FALSE, recommended_plan |-> "", explanation |-> ""]

\* mutant: the oracle's key is returned as it came
ask_llm_to_choose_plan_unvalidated(plans, oracle) ==
    IF oracle.raised THEN [raised |-> TRUE, recommended_plan |-> "", explanation |-> ""]
    ELSE [raised |-> FALSE, recommended_plan |-> oracle.recommended_plan,
          explanation |-> oracle.explanation]

\* ask_llm_to_choose_plan: the returned choice, or raised
ask_llm_to_choose_plan(plans, oracle) ==
    IF oracle.raised THEN [raised |-> TRUE, recommended_plan |-> "", explanation |-> ""]
    ELSE IF oracle.recommended_plan \notin SeqToSet(plans)
    THEN [raised |-> FALSE, recommended_plan |-> plans[1],
          explanation |-> IF oracle.explanation = "" THEN "default_key"
                          ELSE oracle.explanation]
    ELSE [raised |-> FALSE, recommended_plan |-> oracle.recommended_plan,
          explanation |-> oracle.explanation]

\* mutant: the oracle is asked whatever the number of plans
choose_recommended_always_asks(plans, oracle) ==
    LET llm_choice == ask_llm_to_choose_plan(plans, oracle) IN
    IF llm_choice.raised
    THEN [recommended_plan |-> plans[1], explanation |-> "default_error",
          oracle_called |-> TRUE]
    ELSE [recommended_plan |-> llm_choice.recommended_plan,
          explanation |-> llm_choice.explanation, oracle_called |-> TRUE]

\* step 10 of build_plan. The explanation is "only_candidate" ("I selected the
\* ... plan because the others did not satisfy your constraints or your
\* current plan tier."), "default_key" ("I defaulted to the ... plan."),
\* "default_error" ("I defaulted to the ... plan because I could not evaluate
\* preferences."), "oracle" (the oracle's text) or "" (none).
choose_recommended(plans, oracle) ==
    IF Len(plans) = 1
    THEN [recommended_plan |-> plans[1], explanation |-> "only_candidate",
          oracle_called |-> FALSE]
    ELSE LET llm_choice == ask_llm_to_choose_plan(plans, oracle) IN
         IF llm_choice.raised
         THEN [recommended_plan |-> plans[1], explanation |-> "default_error",
               oracle_called |-> TRUE]
         ELSE [recommended_plan |-> llm_choice.recommended_plan,
               explanation |-> llm_choice.explanation, oracle_called |-> TRUE]

\* mutant: every build counts, whatever the tier
runs_used_after_build_any_tier(u, is_free) ==
    [u EXCEPT !.free_plan_runs_used = u.free_plan_runs_used + 1]

\* mutant: a build without pending items is not counted
runs_used_after_build_with_items(u, is_free) ==
    IF is_free /\ items # <<>>
    THEN [u EXCEPT !.free_plan_runs_used = u.free_plan_runs_used + 1] ELSE u

\* step 2 of build_plan: the users row after the usage increment
runs_used_after_build(u, is_free) ==
    IF is_free THEN [u EXCEPT !.free_plan_runs_used = u.free_plan_runs_used + 1] ELSE u

\* step 4 of build_plan: the pending items, oldest first, cut to the free tier's limit
planned_intents(pending, u, is_free) ==
    IF is_free /\ Len(pending) > u.free_items_limit
    THEN SubSeq(pending, 1, u.free_items_limit) ELSE pending

\* POST /plans/build. The ranking oracle's outcome is drawn where it is called.
build_plan(preference, origin, destination, env) ==
    LET is_free == IsFree(user)
        allow_costco == AllowCostco(user)
        r == [Respond("build", 200, preference) EXCEPT
                 !.is_free = is_free, !.allow_costco = allow_costco]
    IN
    IF is_free /\ user.free_plan_runs_used >= user.free_plan_runs_limit
    THEN /\ resp' = [r EXCEPT !.status = 402]
         /\ UNCHANGED <<user, trip_session, items, folded, watchlist, store_location>>
    ELSE
      LET sess == get_or_create_trip_session(trip_session)
          existing_constraints == load_constraints(sess)
          updated_constraints == parse_request_text(preference, existing_constraints)
          existing_seen == existing_after_parse(preference, existing_constraints)
          differs == preference # <<>> /\ updated_constraints # existing_seen
          constraints_used ==
              IF preference = <<>> THEN existing_constraints
              ELSE IF differs THEN updated_constraints ELSE existing_seen
          intents == planned_intents(items, user, is_free)
          one == augment_plan_with_drive_times(one_store_plan, origin, destination,
                                               store_location, env)
          two == IF one.raised THEN one
                 ELSE augment_plan_with_drive_times(two_store_plan, origin, destination,
                                                    one.locs, env)
          three == IF two.raised THEN two
                   ELSE augment_plan_with_drive_times(three_store_plan, origin, destination,
                                                      two.locs, env)
          allowed ==
              { k \in SeqToSet(PlanKeys) :
                  plan_allowed(CandidatePlan(k), constraints_used, is_free, allow_costco) }
          plans == surviving_plans(allowed)
          plan_dicts == [p \in 1..Len(plans) |-> [items |-> plan_items(plans[p], intents)]]
          built == [r EXCEPT !.parsed = (preference # <<>>), !.saved = differs,
                             !.changed = (preference # <<>>
                                            /\ updated_constraints # existing_constraints),
                             !.constraints_used = constraints_used]
      IN
      /\ user' = runs_used_after_build(user, is_free)
      /\ trip_session' = IF differs THEN save_constraints(sess, updated_constraints) ELSE sess
      /\ folded' = IF preference # <<>>
                   THEN parse_request_text(preference, folded) ELSE folded
      /\ UNCHANGED items
      /\ IF items = <<>>
         THEN /\ resp' = [built EXCEPT !.status = 400]
              /\ UNCHANGED <<watchlist, store_location>>
         ELSE IF three.raised
         THEN /\ resp' = [built EXCEPT !.status = 500]
              /\ store_location' = three.locs
              /\ UNCHANGED watchlist
         ELSE /\ store_location' = three.locs
              /\ watchlist' = update_watchlist_prices_from_plans(watchlist, "u1", plan_dicts)
              /\ \E oracle \in (IF Len(plans) = 1 THEN {NoOracle} ELSE OracleOutcomes) :
                    LET choice == choose_recommended(plans, oracle) IN
                    resp' = [built EXCEPT !.allowed = allowed, !.plans = plans,
                                          !.planned = intents,
                                          !.recommended_plan = choice.recommended_plan,
                                          !.explanation = choice.explanation,
                                          !.oracle_called = choice.oracle_called,
                                          !.oracle = oracle]

\* Google Maps as a request meets it: the key set or not, Places finding every
\* store or none, and every Distance Matrix call returning 400 seconds
MapsEnvs ==
    { [key |-> has_key,
       geo |-> [name \in DOMAIN NoLocations |-> found],
       dist |-> [i \in 1..3 |-> 400],
       leg |-> [k \in 1..4 |-> 400]] : has_key \in BOOLEAN, found \in BOOLEAN }

\* a request without origin and destination makes no Google Maps call
NoMaps == CHOOSE env \in MapsEnvs : env.key /\ env.geo["WarehouseClub"]

\* build requests without origin and destination
BuildPlan ==
    /\ \E preference \in Messages : build_plan(preference, "", "", NoMaps)
    /\ UNCHANGED <<parseVars, foldVars, filterVars, concVars, funVars>>

\* POST /billing/webhook, checkout.session.completed with metadata.plan = plan
stripe_webhook(plan) ==
    /\ user' = IF plan = "premium"
               THEN [user EXCEPT !.plan = "premium",
                                 !.free_items_limit = PremiumLimit,
                                 !.free_plan_runs_limit = PremiumLimit]
               ELSE IF plan = "costco_addon"
               THEN [user EXCEPT !.has_costco_addon = TRUE]
               ELSE user
    /\ resp' = Respond("webhook", 200, <<>>)
    /\ UNCHANGED <<trip_session, items, folded>>

StripeWebhook ==
    /\ \E plan \in {"premium", "costco_addon"} : stripe_webhook(plan)
    /\ UNCHANGED <<watchlist, store_location>>
    /\ UNCHANGED <<parseVars, foldVars, filterVars, concVars, funVars>>

Next == ChatAssistant \/ BuildPlan \/ StripeWebhook

Spec == Init /\ [][Next]_vars

---------------------------------------------------------------------------
(* The endpoints with the watchlist and Google Maps: requests that add milk,
   watch the oldest item, and build with or without an origin *)

\* POST /watchlist/toggle for item item_id of the user
toggle_watch(item_id) ==
    LET existing == watchlist[<<"u1", item_id>>] IN
    IF existing.exists
    THEN /\ watchlist' = [watchlist EXCEPT
                             ![<<"u1", item_id>>].is_active = ~existing.is_active]
         /\ resp' = Respond("toggle", 200, <<>>)
    ELSE IF item_id > Len(items)
    THEN /\ resp' = Respond("toggle", 404, <<>>)
         /\ UNCHANGED watchlist
    ELSE /\ watchlist' = [watchlist EXCEPT
                             ![<<"u1", item_id>>] = WatchRow(TRUE, NoneInt, NoneInt)]
         /\ resp' = Respond("toggle", 200, <<>>)

\* the user toggles the watch of the oldest item
ToggleWatch ==
    /\ toggle_watch(1)
    /\ UNCHANGED <<user, trip_session, items, folded, store_location>>
    /\ UNCHANGED <<parseVars, foldVars, filterVars, concVars, funVars>>

\* the chat requests of these runs: "milk", understood by the LLM as one milk item
MilkChat ==
    /\ chat_assistant(<<"milk">>, [raised |-> FALSE, intents |-> <<Intent("milk", FALSE)>>])
    /\ UNCHANGED <<watchlist, store_location>>
    /\ UNCHANGED <<parseVars, foldVars, filterVars, concVars, funVars>>

\* build requests without a preference: without an origin, or with one and
\* Google Maps in any condition
BuildPlanWithOrigin ==
    /\ \/ build_plan(<<>>, "", "", NoMaps)
       \/ \E env \in MapsEnvs : build_plan(<<>>, "97229", "", env)
    /\ UNCHANGED <<parseVars, foldVars, filterVars, concVars, funVars>>

\* the upgrade to premium
PremiumWebhook ==
    /\ stripe_webhook("premium")
    /\ UNCHANGED <<watchlist, store_location>>
    /\ UNCHANGED <<parseVars, foldVars, filterVars, concVars, funVars>>

NextRun == MilkChat \/ ToggleWatch \/ BuildPlanWithOrigin \/ PremiumWebhook

SpecRun == Init /\ [][NextRun]_vars

---------------------------------------------------------------------------
(* The free tier's item cap: chat and build requests of a free user whose
   free_items_limit is small. Two chat requests that count the pending items
   before either commits can leave more pending items than the limit, so the
   user may start above it. *)

ChatItems ==
    { [canonical_category |-> cat, quantity |-> 1] : cat \in {"milk", "other"} }

ChatIntentLists ==
    { <<>>,
      <<Intent("milk", FALSE)>>,
      <<Intent("milk", TRUE)>>,
      <<Intent("milk", FALSE), Intent("other", TRUE)>>,
      <<Intent("milk", FALSE), Intent("other", FALSE)>>,
      <<Intent("other", FALSE), Intent("milk", FALSE), Intent("milk", FALSE)>> }

ChatLlmResults ==
    { [raised |-> TRUE, intents |-> <<>>] } \cup
    { [raised |-> FALSE, intents |-> l] : l \in ChatIntentLists }

ChatMessages == { <<>>, <<"milk">> }

InitChat ==
    /\ \E limit \in 1..MaxItems :
          user = [NewUser EXCEPT !.free_items_limit = limit,
                                 !.free_plan_runs_limit = MaxRunsLimit]
    /\ trip_session = NoSession
    /\ items \in UNION { [1..n -> ChatItems] : n \in 0..MaxItems }
    /\ folded = DefaultConstraints
    /\ resp = NoResponse
    /\ watchlist = NoWatchlist
    /\ store_location = NoLocations
    /\ call = [pc |-> "call", llm |-> [raised |-> FALSE, intents |-> <<>>], before |-> items]
    /\ ParseParked /\ FoldParked /\ FilterParked /\ ConcParked
    /\ AugParked /\ WatchParked /\ DiscParked

\* a chat request; call keeps what the LLM returned and the items before it
ChatCall ==
    /\ \E message \in ChatMessages, llm_result \in ChatLlmResults :
          /\ chat_assistant(message, llm_result)
          /\ call' = [pc |-> "done", llm |-> llm_result, before |-> items]
    /\ UNCHANGED <<watchlist, store_location>>
    /\ UNCHANGED <<parseVars, foldVars, filterVars, concVars, aug, wl, disc>>

\* a build request without preference text
BuildCall ==
    /\ build_plan(<<>>, "", "", NoMaps)
    /\ call' = [pc |-> "done", llm |-> [raised |-> FALSE, intents |-> <<>>],
                before |-> items]
    /\ UNCHANGED <<parseVars, foldVars, filterVars, concVars, aug, wl, disc>>

NextChat == ChatCall \/ BuildCall

SpecChat == InitChat /\ [][NextChat]_vars

---------------------------------------------------------------------------
(* The watchlist_items rows of one (user, item) pair, as a table that could
   hold several: toggles of the pair and price updates between them *)

\* at most this many accepted toggles of the pair
MaxToggles == 3

\* mutant: a present row is deleted
toggle_rows_delete_when_present(rows, item_exists) ==
    IF rows # <<>> THEN [rows |-> Tail(rows), status |-> 200]
    ELSE IF ~item_exists THEN [rows |-> rows, status |-> 404]
    ELSE [rows |-> <<WatchRow(TRUE, NoneInt, NoneInt)>>, status |-> 200]

\* toggle_watch on the rows of the pair: .first() is flipped, or a row is added
toggle_rows(rows, item_exists) ==
    IF rows # <<>>
    THEN [rows |-> [rows EXCEPT ![1].is_active = ~rows[1].is_active], status |-> 200]
    ELSE IF ~item_exists THEN [rows |-> rows, status |-> 404]
    ELSE [rows |-> rows \o <<WatchRow(TRUE, NoneInt, NoneInt)>>, status |-> 200]

\* update_watchlist_prices_from_plans on the rows of the pair, the item being
\* planned at new_price: every active row records it
update_rows(rows, new_price) ==
    [i \in 1..Len(rows) |->
        IF rows[i].is_active THEN record_price(rows[i], new_price) ELSE rows[i]]

\* the items of the user the harness toggles
ToggleItems == {1, 2}

InitToggle ==
    /\ \E item_exists \in [ToggleItems -> BOOLEAN] :
          call = [pc |-> "call", item_exists |-> item_exists,
                  rows |-> [item \in ToggleItems |-> <<>>],
                  n |-> [item \in ToggleItems |-> 0],
                  status |-> 0,
                  left |-> [item \in ToggleItems |-> <<NoneInt, NoneInt>>]]
    /\ SysParked /\ ParseParked /\ FoldParked /\ FilterParked /\ ConcParked
    /\ AugParked /\ WatchParked /\ DiscParked

\* POST /watchlist/toggle for an item of the user; n counts the toggles of the
\* item that were not refused
ToggleCall ==
    /\ \E item \in ToggleItems :
          /\ call.n[item] < MaxToggles
          /\ LET out == toggle_rows(call.rows[item], call.item_exists[item]) IN
             call' = [call EXCEPT !.pc = "done", !.rows[item] = out.rows,
                                  !.status = out.status,
                                  !.n[item] = IF out.status = 200 THEN @ + 1 ELSE @]
    /\ UNCHANGED <<sysVars, parseVars, foldVars, filterVars, concVars, aug, wl, disc>>

\* a build whose plans hold every item at new_price; left keeps the prices the
\* update wrote to an item's row, when it wrote any
PriceUpdateCall ==
    /\ \E new_price \in WatchPrices :
          LET rows == [item \in ToggleItems |-> update_rows(call.rows[item], new_price)] IN
          call' = [call EXCEPT
                      !.pc = "done", !.rows = rows, !.status = 200,
                      !.left = [item \in ToggleItems |->
                                   IF rows[item] # <<>> /\ rows[item] # call.rows[item]
                                   THEN <<rows[item][1].last_price,
                                          rows[item][1].previous_price>>
                                   ELSE call.left[item]]]
    /\ UNCHANGED <<sysVars, parseVars, foldVars, filterVars, concVars, aug, wl, disc>>

NextToggle == ToggleCall \/ PriceUpdateCall

SpecToggle == InitToggle /\ [][NextToggle]_vars

---------------------------------------------------------------------------
(* The stores and store_locations tables as rows: calls of
   get_or_create_store_location by the drive-time augmenter, and memberships
   created for the same store names. A row's id is its position. *)

\* the store names the augmenter passes as brand and as name
GeoNames == DOMAIN NoLocations

\* no row matched
NoId == 0

\* a or b of two strings
OrElse(a, b) == IF a # "" THEN a ELSE b

\* query(Store).filter(Store.name == name).first(): the id of the row, or NoId
\* (the query has no order; with several matches the lowest id stands for any)
find_store(stores, name) ==
    LET ids == { id \in 1..Len(stores) : stores[id] = name } IN
    IF ids = {} THEN NoId ELSE Min(ids)

\* mutant: display_name is compared with NULL, which no row matches
find_location_by_null_name(locations, store_id, display_name) == NoId

\* query(StoreLocation).filter(store_id == ...).filter(display_name == ...).first()
find_location(locations, store_id, display_name) ==
    LET ids == { id \in 1..Len(locations) :
                    /\ locations[id].store_id = store_id
                    /\ locations[id].display_name = display_name } IN
    IF ids = {} THEN NoId ELSE Min(ids)

\* get_or_create_store_location on the tables: the tables after the call, the
\* id of the row returned and whether Places was asked. brand and name come
\* stripped from the augmenter; a blank name is looked up as NULL ("").
get_or_create_store_location_rows(t, brand, name, env) ==
    LET brand_norm == brand
        name_norm == name
        found_store == find_store(t.stores, brand_norm)
        stores == IF found_store = NoId
                  THEN Append(t.stores, OrElse(brand_norm, OrElse(name_norm, "Unknown")))
                  ELSE t.stores
        store_id == IF found_store = NoId THEN Len(stores) ELSE found_store
        found_loc == IF name_norm = "" THEN NoId
                     ELSE find_location(t.locations, store_id, name_norm)
    IN
    IF found_loc # NoId /\ t.locations[found_loc].has_coords
    THEN [stores |-> stores, locations |-> t.locations,
          returned |-> found_loc, geocoded |-> FALSE]
    ELSE
      LET locations ==
              IF found_loc = NoId
              THEN Append(t.locations,
                          [store_id |-> store_id,
                           display_name |-> OrElse(name_norm, OrElse(brand_norm, "Unknown")),
                           has_coords |-> FALSE])
              ELSE t.locations
          loc == IF found_loc = NoId THEN Len(locations) ELSE found_loc
          place == IF api_key_missing(env) THEN FALSE ELSE find_place_lat_lng(env, name)
      IN [stores |-> stores,
          locations |-> [locations EXCEPT ![loc].has_coords = @ \/ place],
          returned |-> loc, geocoded |-> TRUE]

\* POST /memberships steps 1 and 2 on the tables, location_display_name not given
create_membership_rows(t, store_name, env) ==
    LET found_store == find_store(t.stores, store_name)
        stores == IF found_store = NoId THEN Append(t.stores, store_name) ELSE t.stores
        store_id == IF found_store = NoId THEN Len(stores) ELSE found_store
        display_name == store_name
        found_loc == find_location(t.locations, store_id, display_name)
        place == IF api_key_missing(env) THEN FALSE
                 ELSE find_place_lat_lng(env, display_name)
    IN
    IF found_loc # NoId
    THEN [stores |-> stores, locations |-> t.locations,
          returned |-> found_loc, geocoded |-> FALSE]
    ELSE [stores |-> stores,
          locations |-> Append(t.locations,
                               [store_id |-> store_id, display_name |-> display_name,
                                has_coords |-> place]),
          returned |-> Len(t.locations) + 1, geocoded |-> TRUE]

\* the tables are empty; stored: the names get_or_create_store_location has
\* stored or found coordinates for
InitGeo ==
    /\ call = [pc |-> "call", op |-> "none", name |-> "",
               stores |-> <<>>, locations |-> <<>>,
               returned |-> NoId, geocoded |-> FALSE, stored |-> {}]
    /\ SysParked /\ ParseParked /\ FoldParked /\ FilterParked /\ ConcParked
    /\ AugParked /\ WatchParked /\ DiscParked

\* the augmenter resolves a store
GetOrCreateCall ==
    /\ \E name \in GeoNames, env \in MapsEnvs :
          LET out == get_or_create_store_location_rows(call, name, name, env) IN
          call' = [pc |-> "done", op |-> "get_or_create", name |-> name,
                   stores |-> out.stores, locations |-> out.locations,
                   returned |-> out.returned, geocoded |-> out.geocoded,
                   stored |-> IF out.locations[out.returned].has_coords
                              THEN call.stored \cup {name} ELSE call.stored]
    /\ UNCHANGED <<sysVars, parseVars, foldVars, filterVars, concVars, aug, wl, disc>>

\* a membership is created for a store
CreateMembershipCall ==
    /\ \E store_name \in GeoNames, env \in MapsEnvs :
          LET out == create_membership_rows(call, store_name, env) IN
          call' = [call EXCEPT !.pc = "done", !.op = "create_membership",
                               !.name = store_name,
                               !.stores = out.stores, !.locations = out.locations,
                               !.returned = out.returned, !.geocoded = out.geocoded]
    /\ UNCHANGED <<sysVars, parseVars, foldVars, filterVars, concVars, aug, wl, disc>>

NextGeo == GetOrCreateCall \/ CreateMembershipCall

SpecGeo == InitGeo /\ [][NextGeo]_vars

---------------------------------------------------------------------------
(* Properties *)

\* C1 (as stated): after any sequence of chat messages and build preferences the
\* stored trip constraints equal parse_constraints_from_text folded over those
\* texts from the default record, and a request that parsed a text rewrote the
\* stored record exactly when the parse result differed from the prior stored value.
C1_StoredEqualsFold ==
    /\ load_constraints(trip_session) = folded
    /\ (resp.parsed => (resp.saved <=> resp.changed))

\* C2 (as stated): a build_plan request without preference text uses the
\* constraints the earlier texts of the user set; when those say avoid_costco,
\* no returned plan contains WarehouseClub.
C2_RememberedConstraintInForce ==
    (resp.endpoint = "build" /\ resp.status = 200 /\ resp.text = <<>>) =>
        /\ resp.constraints_used = folded
        /\ (folded.avoid_costco =>
              \A i \in 1..Len(resp.plans) : ~HasWarehouseClub(CandidatePlan(resp.plans[i])))

\* C3: for a free-tier user the plans build_plan returns are exactly one_store,
\* whatever the constraints and the club flags.
C3_FreeTierOnlyOneStore ==
    (resp.endpoint = "build" /\ resp.status = 200 /\ resp.is_free) =>
        resp.plans = <<"one_store">>

\* a free-tier club member asks for "only costco": only the tier rule stands
\* between the two-store plan and the response
C3_Witness ==
    /\ resp.endpoint = "build" /\ resp.status = 200
    /\ resp.is_free /\ resp.allow_costco
    /\ resp.constraints_used.must_include_costco
    /\ resp.plans = <<"one_store">>

\* C4: the plans build_plan returns are exactly the candidates that pass the
\* admissibility filter, and exactly one_store when none passes.
C4_FallbackOrExactlyPassing ==
    (resp.endpoint = "build" /\ resp.status = 200) =>
        LET passing ==
                { k \in SeqToSet(PlanKeys) :
                    plan_allowed(CandidatePlan(k), resp.constraints_used,
                                 resp.is_free, resp.allow_costco) }
        IN SeqToSet(resp.plans) = IF passing = {} THEN {"one_store"} ELSE passing

\* a premium user without club access asks for "only costco": no candidate passes
C4_Witness ==
    /\ resp.endpoint = "build" /\ resp.status = 200
    /\ ~resp.is_free
    /\ resp.allowed = {}
    /\ resp.plans = <<"one_store">>

\* C5: plan_allowed accepts a candidate if and only if (a) max_stores is unset
\* or number_of_stores <= max_stores, (b) avoid_costco implies no WarehouseClub,
\* (c) must_include_costco implies WarehouseClub present, (d) free tier implies
\* number_of_stores <= 1, (e) neither membership nor add-on implies no
\* WarehouseClub; for every constraints record, tier and flags, on the three candidates.
C5_PlanAllowedIffFiveConditions ==
    aPc = "done" =>
        \A k \in SeqToSet(PlanKeys) :
            LET plan == CandidatePlan(k)
                club == \E i \in 1..Len(plan.stores) : plan.stores[i] = "WarehouseClub"
                free == aUser.plan \in {"free", ""}
                a == aConstraints.max_stores = NoneInt
                       \/ plan.number_of_stores <= aConstraints.max_stores
                b == aConstraints.avoid_costco => ~club
                c == aConstraints.must_include_costco => club
                d == free => plan.number_of_stores <= 1
                e == (~aUser.has_costco_membership /\ ~aUser.has_costco_addon) => ~club
            IN k \in aAllowed <=> (a /\ b /\ c /\ d /\ e)

\* a premium user with the add-on, must_include_costco and a cap of 2: only two_store passes
C5_Witness ==
    /\ aPc = "done"
    /\ aUser.plan = "premium" /\ aUser.has_costco_addon
    /\ aConstraints.must_include_costco /\ aConstraints.max_stores = 2
    /\ aAllowed = {"two_store"}

\* C6: from the default record, after any sequence of parse_constraints_from_text
\* calls, avoid_costco and must_include_costco are never both true.
C6_NeverBothCostcoFlags ==
    ~(cCur.avoid_costco /\ cCur.must_include_costco)

\* a call on a record that avoids the club sets must_include_costco (and clears avoid_costco)
C6_Witness ==
    /\ cPrev.avoid_costco /\ ~cPrev.must_include_costco
    /\ cCur.must_include_costco /\ ~cCur.avoid_costco

\* C7 (as stated): for every text containing an avoidance phrase and every prior
\* value, the result has avoid_costco = true and must_include_costco = false.
C7_AvoidancePhraseWins ==
    (pPc = "done" /\ ContainsAny(lower(pText), AvoidPhrases)) =>
        (pResult.avoid_costco /\ ~pResult.must_include_costco)

\* C7 (amended): for every text containing an avoidance phrase and no inclusion
\* phrase, and every prior value, the result has avoid_costco = true and
\* must_include_costco = false; when an inclusion phrase is present too, the
\* inclusion rule runs last and the result has must_include_costco = true and
\* avoid_costco = false.
C7_AvoidanceWithoutInclusion ==
    (pPc = "done" /\ ContainsAny(lower(pText), AvoidPhrases)) =>
        IF ContainsAny(lower(pText), IncludePhrases)
        THEN pResult.must_include_costco /\ ~pResult.avoid_costco
        ELSE pResult.avoid_costco /\ ~pResult.must_include_costco

\* an avoidance phrase alone, parsed against a record that had must_include_costco
C7_Witness ==
    /\ pPc = "done"
    /\ ContainsAny(lower(pText), AvoidPhrases)
    /\ ~ContainsAny(lower(pText), IncludePhrases)
    /\ pExisting.must_include_costco /\ ~pExisting.avoid_costco
    /\ pResult.avoid_costco /\ ~pResult.must_include_costco

\* C8 (as stated): a text with both a cheapest-family and a fastest-family
\* phrase gives optimize_for = fastest_drive.
C8_FastestWins ==
    (pPc = "done" /\ ContainsAny(lower(pText), CheapestPhrases)
                  /\ ContainsAny(lower(pText), FastestPhrases)) =>
        pResult.optimize_for = "fastest_drive"

\* C8 (amended): a text with both a cheapest-family and a fastest-family phrase
\* gives optimize_for = cheapest_overall, in either order of the phrases and
\* for every prior value (the fastest family is the elif branch).
C8_CheapestWins ==
    (pPc = "done" /\ ContainsAny(lower(pText), CheapestPhrases)
                  /\ ContainsAny(lower(pText), FastestPhrases)) =>
        pResult.optimize_for = "cheapest_overall"

\* both families in one text, the fastest phrase last, the prior objective fastest_drive
C8_Witness ==
    /\ pPc = "done"
    /\ pText = <<"cheapest", "overall", "fastest", "drive">>
    /\ pExisting.optimize_for = "fastest_drive"
    /\ pResult.optimize_for = "cheapest_overall"

\* C9: each field whose rules the text does not trigger keeps the value it had
\* in `existing`; for a text with no trigger the result equals `existing`, and
\* parsing that text again on the result returns the result.
C9_UntriggeredFieldsKept ==
    pPc = "done" =>
        LET t == lower(pText)
            number == \E k \in 1..Len(TriggerWords), i \in 1..Len(t) :
                         NumberAfter(t, TriggerWords[k], i) # 0
            one_store == Contains(t, <<"1", "store", "only">>)
            avoid == ContainsAny(t, AvoidPhrases)
            include == ContainsAny(t, IncludePhrases)
            gas == ContainsAny(t, GasPhrases)
            objective == ContainsAny(t, CheapestPhrases) \/ ContainsAny(t, FastestPhrases)
        IN
        /\ ~(number \/ one_store \/ include) => pResult.max_stores = pExisting.max_stores
        /\ ~(avoid \/ include) => pResult.avoid_costco = pExisting.avoid_costco
        /\ ~(avoid \/ include) => pResult.must_include_costco = pExisting.must_include_costco
        /\ ~gas => pResult.include_cheapest_gas = pExisting.include_cheapest_gas
        /\ ~objective => pResult.optimize_for = pExisting.optimize_for
        /\ ~(number \/ one_store \/ avoid \/ include \/ gas \/ objective) =>
              /\ pResult = pExisting
              /\ parse_constraints_from_text(pText, pResult) = pResult

\* a text with a trigger word but no number after it, on a record far from the default
C9_Witness ==
    /\ pPc = "done"
    /\ pText = <<"only", "milk">>
    /\ pExisting.max_stores = 3 /\ pExisting.optimize_for = "fastest_drive"
    /\ pExisting.avoid_costco /\ pExisting.include_cheapest_gas
    /\ pResult = pExisting

\* C10 (as stated): when the concurrent build_plan requests of a user have all
\* finished, free_plan_runs_used is its initial value plus the number of
\* admitted requests, and the number of admitted requests never exceeds
\* free_plan_runs_limit.
C10_IncrementAtomic ==
    LET admitted == { r \in Requests : reqPc[r] = "admitted" } IN
    /\ (\A r \in Requests : reqPc[r] \in {"admitted", "rejected"}) =>
          user.free_plan_runs_used = usedAtStart + Cardinality(admitted)
    /\ Cardinality(admitted) <= user.free_plan_runs_limit

\* C14 (as stated): no failure outcome of an external call aborts the request;
\* for the drive-time step: with any result of the geocoder and of the Distance
\* Matrix calls, with or without the API key, and whatever locations are cached,
\* augment_plan_with_drive_times returns to build_plan without raising.
C14_ExternalFailuresNeverAbort ==
    aug.pc = "done" => ~aug.out.raised

\* C20: the plan's travel_minutes and every store's distance_minutes stay at
\* their stub values when origin and destination are both blank or when a store
\* of the plan has no coordinates, and travel_minutes is overwritten only when
\* the sum of the legs that succeeded is positive.
C20_StubValuesKept ==
    aug.pc = "done" =>
        LET plan == CandidatePlan(aug.plan)
            n == Len(plan.stores)
            blank == aug.origin = "" /\ aug.destination = ""
            unresolved == \E i \in 1..n : aug.out.locs[plan.stores[i]] # "coords"
            used == { k \in 1..(n + 1) : ~(k = 1 /\ aug.origin = "") }
            positive == \E k \in used : aug.env.leg[k] > 0
        IN
        /\ (blank \/ unresolved) =>
              /\ aug.out.travel_minutes = plan.travel_minutes
              /\ aug.out.distance_minutes = plan.distance_minutes
        /\ (aug.out.travel_minutes # plan.travel_minutes) => positive
        /\ (~blank /\ ~unresolved /\ ~aug.out.raised /\ ~positive) =>
              aug.out.travel_minutes = plan.travel_minutes

\* the second store of a two-store plan stays without coordinates (the geocoder
\* finds nothing) while the first is cached and every drive-time call succeeds
C20_Witness ==
    /\ aug.pc = "done"
    /\ aug.plan = "two_store" /\ aug.origin # "" /\ aug.env.key
    /\ aug.locs[FRED_MEYER_STORE_NAME] = "coords"
    /\ aug.out.locs["WarehouseClub"] = "row"
    /\ \A i \in 1..2 : aug.env.dist[i] > 0
    /\ \A k \in 1..3 : aug.env.leg[k] > 0
    /\ aug.out.travel_minutes = 180 /\ aug.out.distance_minutes = <<100, 180>>

\* C15: when the update writes a new price to an active row that has a
\* last_price, previous_price becomes the old last_price and last_price the new
\* price; a row without last_price gets last_price and keeps previous_price
\* unset; and the price-drops query then reports exactly the rows whose
\* last_price is below their previous_price, with the difference as the drop.
C15_TwoSlotHistory ==
    wl.pc = "done" =>
        /\ \A k \in WatchKeys :
              LET old == wl.before[k]
                  new == wl.after[k]
              IN (old.exists /\ old.is_active /\ k[1] = wl.user_id
                    /\ \E i \in 1..Len(wl.items[wl.plans[1]]) :
                          wl.items[wl.plans[1]][i].id = k[2]) =>
                     /\ new.last_price # NoneInt
                     /\ (old.last_price # NoneInt => new.previous_price = old.last_price)
                     /\ (old.last_price = NoneInt => new.previous_price = NoneInt)
        /\ \A k \in WatchKeys :
              LET new == wl.after[k] IN
              (new.exists /\ new.is_active /\ k[1] = wl.user_id
                 /\ new.last_price # NoneInt /\ new.previous_price # NoneInt
                 /\ new.last_price < new.previous_price)
              <=> [item_id |-> k[2], last_price |-> new.last_price,
                   previous_price |-> new.previous_price,
                   price_drop |-> new.previous_price - new.last_price]
                     \in get_price_drops(wl.after, wl.user_id)

\* last_price 5.00, the run's minimum is 4.50: previous_price 5.00, last_price
\* 4.50, and the price-drops query reports the item with a drop of 0.50
C15_Witness ==
    /\ wl.pc = "done"
    /\ wl.before[<<"u1", 1>>] = WatchRow(TRUE, 500, NoneInt)
    /\ wl.after[<<"u1", 1>>] = WatchRow(TRUE, 450, 500)
    /\ [item_id |-> 1, last_price |-> 450, previous_price |-> 500, price_drop |-> 50]
          \in get_price_drops(wl.after, "u1")

\* C16: the price recorded for a watched item is the lowest estimated_price of
\* that item over the plans that survived the filter; candidates that were
\* filtered out do not contribute.
C16_MinimumOverSurvivingPlans ==
    wl.pc = "done" =>
        LET surviving == IF wl.allowed = {} THEN {"one_store"} ELSE wl.allowed IN
        \A k \in WatchKeys :
            LET old == wl.before[k]
                prices == UNION { { wl.items[key][i].estimated_price :
                                      i \in { j \in 1..Len(wl.items[key]) :
                                                wl.items[key][j].id = k[2] } } :
                                  key \in surviving }
            IN (old.exists /\ old.is_active /\ k[1] = wl.user_id /\ prices # {}) =>
                  /\ wl.after[k].last_price \in prices
                  /\ \A x \in prices : wl.after[k].last_price <= x

\* the cheapest candidate was filtered out and a dearer one gives the recorded price
C16_Witness ==
    /\ wl.pc = "done"
    /\ wl.allowed = {"one_store", "two_store"}
    /\ wl.items["one_store"][1].estimated_price = 600
    /\ wl.items["two_store"][1].estimated_price = 500
    /\ wl.items["three_store"][1].estimated_price = 450
    /\ wl.before[<<"u1", 1>>].exists /\ wl.before[<<"u1", 1>>].is_active
    /\ wl.after[<<"u1", 1>>].last_price = 500

\* C17: the update leaves last_price and previous_price of every row whose item
\* is not in this run's plans, of every inactive row and of every row of
\* another user as they were.
C17_OtherRowsUntouched ==
    wl.pc = "done" =>
        \A k \in WatchKeys :
            LET in_plans == \E i \in 1..Len(wl.items[wl.plans[1]]) :
                               wl.items[wl.plans[1]][i].id = k[2]
            IN (~in_plans \/ ~wl.before[k].is_active \/ k[1] # wl.user_id) =>
                  wl.after[k] = wl.before[k]

\* one run that updates the caller's active row of item 1 and leaves the
\* caller's inactive row of the planned item 2 and the other user's row alone
C17_Witness ==
    /\ wl.pc = "done"
    /\ wl.before[<<"u1", 1>>] = WatchRow(TRUE, 500, NoneInt)
    /\ wl.after[<<"u1", 1>>] # wl.before[<<"u1", 1>>]
    /\ wl.before[<<"u1", 2>>] = WatchRow(FALSE, 500, 600)
    /\ Len(wl.items["one_store"]) = 2
    /\ wl.before[<<"u2", 1>>] = WatchRow(TRUE, 500, NoneInt)
    /\ wl.after[<<"u1", 2>>] = wl.before[<<"u1", 2>>]
    /\ wl.after[<<"u2", 1>>] = wl.before[<<"u2", 1>>]

\* C18: after the discount step every plan has a total_price of zero or more
\* and a discounts list; a plan to which no rule applies has an empty list and
\* the total it had.
C18_TotalNonNegativeAndListPresent ==
    disc.pc = "done" =>
        \A p \in 1..Len(disc.after) :
            /\ disc.after[p].total_price >= 0
            /\ disc.after[p].has_discounts
            /\ (membership_discount(disc.before[p], member_brands(disc.memberships)) = 0
                  /\ coupon_discount(disc.before[p]) = 0) =>
                  /\ disc.after[p].discounts = <<>>
                  /\ disc.after[p].total_price = disc.before[p].total_price

\* a call with one discounted plan and one plan to which no rule applies
C18_Witness ==
    /\ disc.pc = "done"
    /\ Len(disc.after) = 2
    /\ disc.after[1].discounts # <<>>
    /\ disc.after[1].total_price < disc.before[1].total_price
    /\ disc.after[2].has_discounts /\ disc.after[2].discounts = <<>>
    /\ disc.after[2].total_price = disc.before[2].total_price

\* C19: the amount taken off a plan is, rounded to cents, 5% of its
\* WarehouseClub subtotal when the user has an active membership record of
\* WarehouseClub, plus $5 when its Fred Meyer subtotal is $50 or more; both
\* are taken off when both apply.
C19_RulesStack ==
    disc.pc = "done" =>
        \A p \in 1..Len(disc.after) :
            LET plan == disc.before[p]
                member == \E mem \in disc.memberships :
                              mem.store_name = "WarehouseClub" /\ mem.is_active
                club == SumSeq([i \in 1..Len(plan.items) |->
                            IF plan.items[i].store_name = "WarehouseClub"
                            THEN plan.items[i].estimated_price ELSE 0])
                fred == SumSeq([i \in 1..Len(plan.items) |->
                            IF plan.items[i].store_name \in {FRED_MEYER_STORE_NAME, ""}
                            THEN plan.items[i].estimated_price ELSE 0])
                off == (IF member THEN 5 * club ELSE 0) + (IF fred >= 5000 THEN 50000 ELSE 0)
            IN plan.total_price - disc.after[p].total_price = (off + 50) \div 100

\* a member with $60 at Fred Meyer and $40 at WarehouseClub gets $7.00 off
C19_Witness ==
    /\ disc.pc = "done"
    /\ \E mem \in disc.memberships : mem.store_name = "WarehouseClub" /\ mem.is_active
    /\ disc.before[1].items = <<[store_name |-> FRED_MEYER_STORE_NAME, estimated_price |-> 6000],
                                [store_name |-> "WarehouseClub", estimated_price |-> 4000]>>
    /\ disc.before[1].total_price = 10000
    /\ disc.after[1].total_price = 9300
    /\ disc.after[1].discounts = <<"membership", "coupon">>

\* C11: a build request of a free user whose free_plan_runs_used has reached
\* free_plan_runs_limit is answered 402 and leaves the users row, the trip
\* session, the items, the watchlist rows and the store locations as they
\* were; a build request of a premium user is never answered 402 and leaves
\* free_plan_runs_used as it was.
C11_ExhaustedRunChangesNothing ==
    [][resp'.endpoint = "build" =>
          /\ (IsFree(user) /\ user.free_plan_runs_used >= user.free_plan_runs_limit) =>
                /\ resp'.status = 402
                /\ UNCHANGED <<user, trip_session, items, watchlist, store_location>>
          /\ resp'.status = 402 =>
                (IsFree(user) /\ user.free_plan_runs_used >= user.free_plan_runs_limit)
          /\ ~IsFree(user) =>
                /\ resp'.status # 402
                /\ user'.free_plan_runs_used = user.free_plan_runs_used]_vars

\* a 402 when earlier builds have recorded a price and cached coordinates
C11_Witness ==
    /\ resp.endpoint = "build" /\ resp.status = 402
    /\ user.free_plan_runs_used = user.free_plan_runs_limit
    /\ watchlist[<<"u1", 1>>].last_price # NoneInt
    /\ store_location[FRED_MEYER_STORE_NAME] = "coords"

\* C12: when two or more plans survive and the oracle call fails or returns a
\* key that is not offered, the recommended plan is the first surviving key
\* and the explanation is one of the backend's default explanations.
C12_FallbackHasDefaultExplanation ==
    (resp.endpoint = "build" /\ resp.status = 200 /\ Len(resp.plans) >= 2
       /\ (resp.oracle.raised \/ resp.oracle.recommended_plan \notin SeqToSet(resp.plans))) =>
        /\ resp.recommended_plan = resp.plans[1]
        /\ resp.explanation \in {"default_key", "default_error"}

\* C13: a build that leaves exactly one plan recommends it without asking the
\* oracle and explains that the others did not satisfy the constraints or the
\* tier; the oracle is asked only by builds that leave two or more plans.
C13_SinglePlanNeedsNoOracle ==
    /\ (resp.endpoint = "build" /\ resp.status = 200 /\ Len(resp.plans) = 1) =>
          /\ resp.recommended_plan = resp.plans[1]
          /\ resp.explanation = "only_candidate"
          /\ ~resp.oracle_called
    /\ resp.oracle_called =>
          (resp.endpoint = "build" /\ resp.status = 200 /\ Len(resp.plans) >= 2)

\* a premium club member whose preference leaves only the one-store plan
C13_Witness ==
    /\ resp.endpoint = "build" /\ resp.status = 200
    /\ ~resp.is_free /\ resp.allow_costco
    /\ resp.plans = <<"one_store">>
    /\ resp.recommended_plan = "one_store"
    /\ resp.explanation = "only_candidate"
    /\ ~resp.oracle_called

\* C27: every build answered 200 returns at least one plan and recommends a
\* key of the returned plans, whatever the oracle did (a valid key, a key that
\* is not offered or missing, an exception).
C27_RecommendedIsReturnedPlan ==
    (resp.endpoint = "build" /\ resp.status = 200) =>
        /\ resp.plans # <<>>
        /\ resp.recommended_plan \in SeqToSet(resp.plans)

\* the oracle named a key that is not offered and the first plan is recommended
C27_Witness ==
    /\ resp.endpoint = "build" /\ resp.status = 200
    /\ resp.oracle_called
    /\ ~resp.oracle.raised
    /\ resp.oracle.recommended_plan \notin SeqToSet(resp.plans)
    /\ resp.recommended_plan = resp.plans[1]

\* C28: when the constraints of the build have avoid_costco, or the user has
\* neither has_costco_membership nor has_costco_addon, no returned plan has the
\* WarehouseClub store, the one-store fallback included, and so neither has
\* the recommended plan.
C28_NoWarehouseClubWhenExcluded ==
    (resp.endpoint = "build" /\ resp.status = 200
       /\ (resp.constraints_used.avoid_costco \/ ~resp.allow_costco)) =>
        /\ \A i \in 1..Len(resp.plans) : ~HasWarehouseClub(CandidatePlan(resp.plans[i]))
        /\ ~HasWarehouseClub(CandidatePlan(resp.recommended_plan))

\* a premium club member asks to avoid the club store
C28_Witness ==
    /\ resp.endpoint = "build" /\ resp.status = 200
    /\ ~resp.is_free /\ resp.allow_costco
    /\ resp.constraints_used.avoid_costco
    /\ resp.plans = <<"one_store">>
    /\ resp.allowed = {"one_store"}

\* C29: whenever the constraints of the build have max_stores set, every
\* returned plan has number_of_stores <= max_stores, the one-store fallback
\* included.
C29_ReturnedPlansWithinStoreCap ==
    (resp.endpoint = "build" /\ resp.status = 200
       /\ resp.constraints_used.max_stores # NoneInt) =>
        \A i \in 1..Len(resp.plans) :
            CandidatePlan(resp.plans[i]).number_of_stores <= resp.constraints_used.max_stores

\* C30: a build request of a free user that passes the run-limit check adds
\* one to free_plan_runs_used whatever happens to the request afterwards (400
\* for no pending items included), no other request changes the counter, and
\* the counter never exceeds free_plan_runs_limit.
C30_AdmittedRunIsCounted ==
    /\ [](user.free_plan_runs_used <= user.free_plan_runs_limit)
    /\ [][/\ (resp'.endpoint = "build" /\ resp'.status # 402 /\ IsFree(user)) =>
                user'.free_plan_runs_used = user.free_plan_runs_used + 1
          /\ (resp'.endpoint # "build" \/ resp'.status = 402 \/ ~IsFree(user)) =>
                user'.free_plan_runs_used = user.free_plan_runs_used]_vars

\* every run of a free user was used up by requests without pending items
C30_Witness ==
    /\ resp.endpoint = "build" /\ resp.status = 400
    /\ items = <<>>
    /\ IsFree(user)
    /\ user.free_plan_runs_used = user.free_plan_runs_limit

\* C24: an item whose quantity is zero or negative is priced, in each of the
\* three plans, as the same item with quantity 1; and both the catalog price
\* and the estimator price of such an intent equal those of quantity 1.
C24_EffectiveQuantityAtLeastOne ==
    call.pc = "done" =>
        \A n \in 1..Len(call.intents) :
            LET intent == call.intents[n]
                single == [intent EXCEPT !.quantity = 1]
            IN intent.quantity <= 0 =>
                  /\ \A key \in SeqToSet(PlanKeys) :
                        call.plans[key][n].estimated_price
                           = plan_items(key, <<single>>)[1].estimated_price
                  /\ price_from_catalog(intent) = price_from_catalog(single)
                  /\ \A kind \in {"fred_meyer", "warehouse_club", "neighborhood"} :
                        estimate_price_for_item(intent, kind)
                           = estimate_price_for_item(single, kind)

\* milk with quantity 0: 3.79 from the catalog, 3.67 at the club store
C24_Witness ==
    /\ call.pc = "done"
    /\ call.intents[1] = [canonical_category |-> "milk", quantity |-> 0]
    /\ call.plans["one_store"][1].estimated_price = 379
    /\ call.plans["two_store"][1].estimated_price = 367
    /\ call.plans["three_store"][1].estimated_price = 367

\* C25: the three candidates each hold every planned item exactly once, in
\* order, at the store its category decides: one_store all at Fred Meyer;
\* two_store milk, eggs, cereal and detergent at WarehouseClub and the rest at
\* Fred Meyer; three_store milk, eggs and cereal at WarehouseClub, detergent at
\* Fred Meyer and the rest at NeighborhoodMarket.
C25_RoutingByCategory ==
    call.pc = "done" =>
        /\ DOMAIN call.plans = {"one_store", "two_store", "three_store"}
        /\ \A key \in DOMAIN call.plans :
              /\ Len(call.plans[key]) = Len(call.intents)
              /\ \A n \in 1..Len(call.intents) :
                    LET cat == call.intents[n].canonical_category
                        item == call.plans[key][n]
                    IN /\ item.id = n
                       /\ key = "one_store" => item.store_name = FRED_MEYER_STORE_NAME
                       /\ key = "two_store" =>
                             item.store_name =
                                IF cat \in {"milk", "eggs", "cereal", "detergent"}
                                THEN "WarehouseClub" ELSE FRED_MEYER_STORE_NAME
                       /\ key = "three_store" =>
                             item.store_name =
                                IF cat \in {"milk", "eggs", "cereal"} THEN "WarehouseClub"
                                ELSE IF cat = "detergent" THEN FRED_MEYER_STORE_NAME
                                ELSE "NeighborhoodMarket"

\* detergent and a tablet: the three plans send them to different stores
C25_Witness ==
    /\ call.pc = "done"
    /\ Len(call.intents) = 2
    /\ call.intents[1].canonical_category = "detergent"
    /\ call.intents[2].canonical_category = "tablet"
    /\ call.plans["two_store"][1].store_name = "WarehouseClub"
    /\ call.plans["two_store"][2].store_name = FRED_MEYER_STORE_NAME
    /\ call.plans["three_store"][1].store_name = FRED_MEYER_STORE_NAME
    /\ call.plans["three_store"][2].store_name = "NeighborhoodMarket"

\* C22: a chat request whose LLM result holds any intent with
\* needs_clarification = true creates no ItemIntent row, the intents that need
\* no clarification included.
C22_ClarificationPersistsNothing ==
    (call.pc = "done" /\ resp.endpoint = "chat"
       /\ \E i \in 1..Len(call.llm.intents) : call.llm.intents[i].needs_clarification) =>
        /\ items = call.before
        /\ resp.status = 200

\* milk is clear, the second intent is not, and a slot is free: nothing is added
C22_Witness ==
    /\ call.pc = "done" /\ resp.endpoint = "chat" /\ resp.status = 200
    /\ resp.text # <<>>
    /\ call.llm.intents = <<Intent("milk", FALSE), Intent("other", TRUE)>>
    /\ Len(call.before) < user.free_items_limit
    /\ items = call.before

\* C23: a build of a free user with more than free_items_limit pending items
\* that passes the run check returns 200 and plans exactly the free_items_limit
\* oldest; a chat request of a free user adds at most (limit - existing
\* pending) items, none when that is negative, so a list within the limit
\* stays within it.
C23_FreeItemCap ==
    [][/\ (resp'.endpoint = "build" /\ resp'.status # 402 /\ IsFree(user)
             /\ Len(items) > user.free_items_limit) =>
              /\ resp'.status = 200
              /\ resp'.planned = SubSeq(items, 1, user.free_items_limit)
              /\ items' = items
       /\ (resp'.endpoint = "chat" /\ IsFree(user)) =>
              /\ Len(items') - Len(items)
                    <= Max({user.free_items_limit - Len(items), 0})
              /\ Len(items) <= user.free_items_limit =>
                    Len(items') <= user.free_items_limit
              /\ SubSeq(items', 1, Len(items)) = items]_vars

\* three clear intents and one free slot: exactly the first is persisted
C23_Witness ==
    /\ call.pc = "done" /\ resp.endpoint = "chat" /\ resp.status = 200
    /\ IsFree(user)
    /\ Len(call.llm.intents) = 3
    /\ Len(call.before) = user.free_items_limit - 1
    /\ items = call.before \o <<[canonical_category |-> "other", quantity |-> 1]>>

\* C26: after n >= 1 accepted toggles of a (user, item) pair there is exactly
\* one row of the pair, it is active iff n is odd, and its last_price and
\* previous_price are those the price update last wrote (NULL when it wrote none).
C26_ToggleFlipsOneRow ==
    \A item \in ToggleItems :
        call.n[item] >= 1 =>
            /\ Len(call.rows[item]) = 1
            /\ call.rows[item][1].is_active <=> (call.n[item] % 2 = 1)
            /\ <<call.rows[item][1].last_price, call.rows[item][1].previous_price>>
                  = call.left[item]

\* watched, priced twice, switched off and on again: one active row, prices kept
C26_Witness ==
    /\ call.n[1] = 3
    /\ Len(call.rows[1]) = 1
    /\ call.rows[1][1].is_active
    /\ call.rows[1][1].last_price = 450
    /\ call.rows[1][1].previous_price = 600
    /\ call.left[1] = <<450, 600>>

\* C21: once get_or_create_store_location has stored coordinates for a store
\* name, every later call for that name returns the row with its coordinates,
\* asks Places nothing and leaves both tables as they were; and there is never
\* a second stores row of a name or a second store_locations row of a store
\* and display name.
C21_GeocodeOnce ==
    /\ [](/\ \A a, b \in 1..Len(call.stores) : call.stores[a] = call.stores[b] => a = b
          /\ \A a, b \in 1..Len(call.locations) :
                (/\ call.locations[a].store_id = call.locations[b].store_id
                 /\ call.locations[a].display_name = call.locations[b].display_name)
                    => a = b)
    /\ [][(call'.op = "get_or_create" /\ call'.name \in call.stored) =>
              /\ ~call'.geocoded
              /\ call'.stores = call.stores
              /\ call'.locations = call.locations
              /\ call'.locations[call'.returned].has_coords
              /\ call'.locations[call'.returned].display_name = call'.name
              /\ call'.stores[call'.locations[call'.returned].store_id] = call'.name]_vars

\* WarehouseClub was resolved before and is asked for again, after other
\* stores were added: the stored row is returned and Places is not asked
C21_Witness ==
    /\ call.op = "get_or_create" /\ call.name = "WarehouseClub"
    /\ ~call.geocoded
    /\ Len(call.stores) = 3 /\ Len(call.locations) = 3
    /\ call.returned = 2
    /\ call.locations[2].has_coords
    /\ "WarehouseClub" \in call.stored

===========================================================================
